---------------------------- MODULE Spec2Model ----------------------------
(***************************************************************************)
(* Voxel-Weaver: the gesture-driven construction engine.                   *)
(*                                                                         *)
(* The model follows client/src/lib/voxelScene.ts (class VoxelScene), the  *)
(* orchestrating component client/src/components/VoxelBuilder.tsx          *)
(* (processGestures, handleClear, handleConfigChange), exportData and      *)
(* importData of the scene's later variant, and the gesture classifier     *)
(* (analyzeGestures, processHandGestures).                                 *)
(*                                                                         *)
(* Numbers are fixed point:                                                *)
(*   lengths (voxel positions, zoom, cursor)   in 1/100 of a world unit    *)
(*   palm coordinates                          in 1/50  (0.02)             *)
(*   angles (worldRotation)                    in 1/1000 rad               *)
(*   rotationVelocity                          in 1/10                     *)
(*   zoomVelocity                              in 1/100                    *)
(*   sensitivity                               in 1/2                      *)
(* so that  rotation += velocity * 0.01  is  rot' = rot + vel  and         *)
(* velocity = delta * sensitivity * 10  is  vel = dPalm * sensitivity.     *)
(* An optional value (T | null) is a sequence: <<>> is null, <<v>> is v.   *)
(***************************************************************************)
EXTENDS Integers, Sequences, FiniteSets, TLC

VARIABLES
    scene,        \* the VoxelScene instance: this.state and the private fields
    lastGesture,  \* lastGestureRef.current (VoxelBuilder)
    voxelCount,   \* useState voxelCount (VoxelBuilder)
    isLocked,     \* useState isLocked (VoxelBuilder)
    cursorStatus, \* useState cursorStatus (VoxelBuilder)
    gestures,     \* useState gestures (useHandTracking), the latest frame
    config,       \* useState config (VoxelBuilder)
    call,         \* the last handler or scene method that ran, and what it returned;
                  \* of a run of processGestures, the scene methods it called, in order
    result,       \* HandTrackingResult: the landmark lists handed to handleResults
    newGestures,  \* what processHandGestures made of them, or that it threw
    presses,      \* a tally kept beside the program: the presses of the build hand's
                  \* pinches that the frames have shown, and the voxels added and removed
    tracking      \* useHandTracking: its state, its tracker reference, its pending
                  \* timeout, and the HandTracker objects made so far

vars == <<scene, lastGesture, voxelCount, isLocked, cursorStatus, gestures, config, call,
          result, newGestures, presses, tracking>>

-----------------------------------------------------------------------------
(* Bounds of the exploration *)

\* no voxel is added once the map holds this many
MaxVoxels == 2
\* render ticks explored (animationId, the requestAnimationFrame handle, counts them)
MaxTicks == 2
\* the longest landmark list handed to the classifier
MaxLandmarks == 21
\* presses of one pinch tallied
MaxPresses == 2
\* the longest list of coordinates read from a file
MaxFile == 2
\* HandTracker objects made by the hook's effect
MaxTrackers == 3

-----------------------------------------------------------------------------
(* Program constants *)

GRID_SIZE == 100
INERTIA_DAMPING == 95
ZOOM_SPEED == 3
ZOOM_MIN == 300
ZOOM_MAX == 2000
HALF_PI == 1570

Null == <<>>
Some(v) == <<v>>

Max(a, b) == IF a >= b THEN a ELSE b
Min(a, b) == IF a <= b THEN a ELSE b
Abs(n) == IF n < 0 THEN -n ELSE n

-----------------------------------------------------------------------------
(* Grid and keys *)

\* Math.round(value / GRID_SIZE) * GRID_SIZE; Math.round rounds halves up
snapToGrid(value) == ((2 * value + GRID_SIZE) \div (2 * GRID_SIZE)) * GRID_SIZE

\* the result of snapToGrid(value) is the number -0, which equals 0: Math.round
\* gives -0 for a value from -0.5 (included) to 0, and -0 * GRID_SIZE is -0
snapsToNegativeZero(value) == value < 0 /\ snapToGrid(value) = 0

Digits == <<"0", "1", "2", "3", "4", "5", "6", "7", "8", "9">>

\* the decimal digits of a natural number, as a sequence of characters
RECURSIVE Decimal(_)
Decimal(n) == IF n < 10 THEN <<Digits[n + 1]>> ELSE Append(Decimal(n \div 10), Digits[(n % 10) + 1])

\* a conversion that keeps the sign of -0 and spells it "-0"
toString_SignedZero(n, negativeZero) ==
    IF negativeZero THEN <<"-", "0">>
    ELSE IF n < 0 THEN <<"-">> \o Decimal((-n) \div 100)
    ELSE Decimal(n \div 100)

\* the template literal's ${n}, Number::toString, of a whole number n (in 1/100);
\* negativeZero tells the number -0 from 0: both are spelled "0"
toString(n, negativeZero) ==
    IF negativeZero THEN <<"0">>
    ELSE IF n < 0 THEN <<"-">> \o Decimal((-n) \div 100)
    ELSE Decimal(n \div 100)

\* `${snapToGrid(pos.x)}_${snapToGrid(pos.y)}_${snapToGrid(pos.z)}`, a string: the
\* sequence of its characters
positionToKey(pos) ==
    toString(snapToGrid(pos[1]), snapsToNegativeZero(pos[1])) \o <<"_">>
        \o toString(snapToGrid(pos[2]), snapsToNegativeZero(pos[2])) \o <<"_">>
        \o toString(snapToGrid(pos[3]), snapsToNegativeZero(pos[3]))

VecAdd(a, b) == <<a[1] + b[1], a[2] + b[2], a[3] + b[3]>>
VecScale(a, k) == <<a[1] * k, a[2] * k, a[3] * k>>

-----------------------------------------------------------------------------
(* The voxel map: a JavaScript Map, which iterates in insertion order, as the *)
(* sequence of its values                                                     *)

MapHas(voxels, key) == \E i \in DOMAIN voxels : voxels[i].id = key

MapIndex(voxels, key) == CHOOSE i \in DOMAIN voxels : voxels[i].id = key

MapGet(voxels, key) == IF MapHas(voxels, key) THEN Some(voxels[MapIndex(voxels, key)]) ELSE Null

MapDelete(voxels, key) ==
    IF MapHas(voxels, key)
    THEN LET Without(k) == [i \in 1..(Len(voxels) - 1) |-> IF i < k THEN voxels[i] ELSE voxels[i + 1]]
         IN Without(MapIndex(voxels, key))
    ELSE voxels

\* Map.set: a new key is appended, an existing key keeps its place
MapSet(voxels, key, voxel) ==
    IF MapHas(voxels, key)
    THEN [voxels EXCEPT ![MapIndex(voxels, key)] = voxel]
    ELSE Append(voxels, voxel)

Keys(voxels) == {voxels[i].id : i \in DOMAIN voxels}

\* Object identity is kept up to renaming: the meshes of a map are numbered by
\* age, 0 the oldest; Renamed closes the gap a removed mesh leaves.
Renamed(voxels) ==
    [i \in 1..Len(voxels) |->
        [voxels[i] EXCEPT !.mesh = Cardinality({j \in 1..Len(voxels) : voxels[j].mesh < voxels[i].mesh})]]

\* new THREE.Mesh(...): an object distinct from every mesh now in the map
NewMesh(voxels) ==
    CHOOSE m \in 0..Len(voxels) :
        /\ \A i \in DOMAIN voxels : voxels[i].mesh # m
        /\ \A n \in 0..(m - 1) : \E i \in DOMAIN voxels : voxels[i].mesh = n

\* addVoxelAt without "if (this.state.voxels.has(key)) return null"
addVoxelAt_Overwrite(s, position) ==
    LET Add(key) ==
            LET Set(voxel) ==
                    [scene |-> [s EXCEPT !.voxels = MapSet(@, key, voxel)], ret |-> Some(voxel)]
            IN Set([id |-> key, position |-> position, mesh |-> NewMesh(s.voxels)])
    IN Add(positionToKey(position))

addVoxelAt(s, position) ==
    LET Add(key) ==
            IF MapHas(s.voxels, key)
            THEN [scene |-> s, ret |-> Null]
            ELSE LET Set(voxel) ==
                         [scene |-> [s EXCEPT !.voxels = MapSet(@, key, voxel)], ret |-> Some(voxel)]
                 IN Set([id |-> key, position |-> position, mesh |-> NewMesh(s.voxels)])
    IN Add(positionToKey(position))

\* placeInitialCube with its cube in front of the origin
placeInitialCube_InFront(s) == addVoxelAt(s, <<0, 0, GRID_SIZE>>).scene

placeInitialCube(s) == addVoxelAt(s, <<0, 0, 0>>).scene

\* clearAll without placeInitialCube()
clearAll_NoSeed(s) == [s EXCEPT !.voxels = <<>>]

clearAll(s) == placeInitialCube([s EXCEPT !.voxels = <<>>])

placeCube(s) ==
    IF s.targetPosition = Null
    THEN [scene |-> s, ret |-> FALSE]
    ELSE LET Placed(r) == [scene |-> r.scene, ret |-> r.ret # Null]
         IN Placed(addVoxelAt(s, s.targetPosition[1]))

\* deleteCube without "if (this.state.voxels.size <= 1) return false"
deleteCube_NoGuard(s) ==
    IF s.targetVoxelId = Null THEN [scene |-> s, ret |-> FALSE]
    ELSE IF MapGet(s.voxels, s.targetVoxelId[1]) = Null THEN [scene |-> s, ret |-> FALSE]
    ELSE [scene |-> [s EXCEPT !.voxels = Renamed(MapDelete(@, s.targetVoxelId[1])),
                              !.targetVoxelId = Null],
          ret |-> TRUE]

\* deleteCube without "if (!voxel) return false", were the removal to go through
deleteCube_NoLookup(s) ==
    IF s.targetVoxelId = Null THEN [scene |-> s, ret |-> FALSE]
    ELSE IF Len(s.voxels) <= 1 THEN [scene |-> s, ret |-> FALSE]
    ELSE [scene |-> [s EXCEPT !.voxels = Renamed(MapDelete(@, s.targetVoxelId[1])),
                              !.targetVoxelId = Null],
          ret |-> TRUE]

deleteCube(s) ==
    IF s.targetVoxelId = Null THEN [scene |-> s, ret |-> FALSE]
    ELSE IF Len(s.voxels) <= 1 THEN [scene |-> s, ret |-> FALSE]
    ELSE IF MapGet(s.voxels, s.targetVoxelId[1]) = Null THEN [scene |-> s, ret |-> FALSE]
    ELSE [scene |-> [s EXCEPT !.voxels = Renamed(MapDelete(@, s.targetVoxelId[1])),
                              !.targetVoxelId = Null],
          ret |-> TRUE]

setSensitivity(s, value) == [s EXCEPT !.sensitivity = value]

getSensitivity(s) == s.sensitivity

getVoxelCount(s) == Len(s.voxels)

isLockedState(s) == s.isLocked

exportData(s) == [i \in 1..Len(s.voxels) |-> s.voxels[i].position]

RECURSIVE AddAll(_, _)
AddAll(s, data) ==
    IF data = <<>> THEN s ELSE AddAll(addVoxelAt(s, Head(data)).scene, Tail(data))

importData(s, data) == AddAll(clearAll(s), data)

-----------------------------------------------------------------------------
(* Targeting: VoxelScene.updateCursor / hideCursor *)

\* sine of x (1/1000 rad, 0 <= x <= pi/2) times 1000, by its Taylor polynomial
SinQ(x) ==
    LET P(x2) ==
            LET Q(t3) ==
                    LET R(t5) == x - t3 + t5 - ((t5 * x2) \div 42000)
                    IN R((t3 * x2) \div 20000)
            IN Q((x * x2) \div 6000)
    IN P((x * x) \div 1000)

\* the angle brought into -pi..pi
NormAngle(a) == ((a + 3142) % 6283) - 3142

Sin(a) ==
    LET S(n) == IF n < 0 THEN -SinQ(Min(-n, 3142 + n)) ELSE SinQ(Min(n, 3142 - n))
    IN S(NormAngle(a))

Cos(a) == Sin(a + 1571)

\* a product of two fixed-point numbers with 3 decimals, rounded down
Mul(a, b) == (a * b) \div 1000

\* the rotation matrix of an Euler angle, order XYZ: Rx(x) Ry(y) Rz(z), by rows
eulerMatrix(euler) ==
    LET Rows(a, b, c, d, e, f) ==
            <<Mul(c, e), -Mul(c, f), d,
              Mul(a, f) + Mul(Mul(b, e), d), Mul(a, e) - Mul(Mul(b, f), d), -Mul(b, c),
              Mul(b, f) - Mul(Mul(a, e), d), Mul(b, e) + Mul(Mul(a, f), d), Mul(a, c)>>
    IN Rows(Cos(euler[1]), Sin(euler[1]), Cos(euler[2]), Sin(euler[2]),
            Cos(euler[3]), Sin(euler[3]))

\* THREE.Vector3.applyEuler(euler), given the matrix m of the Euler angle
applyEuler(v, m) ==
    <<Mul(m[1], v[1]) + Mul(m[2], v[2]) + Mul(m[3], v[3]),
      Mul(m[4], v[1]) + Mul(m[5], v[2]) + Mul(m[6], v[3]),
      Mul(m[7], v[1]) + Mul(m[8], v[2]) + Mul(m[9], v[3])>>

RECURSIVE SqrtBetween(_, _, _)
SqrtBetween(n, lo, hi) ==
    IF lo >= hi THEN lo
    ELSE LET Half(mid) ==
                 IF mid * mid <= n THEN SqrtBetween(n, mid, hi) ELSE SqrtBetween(n, lo, mid - 1)
         IN Half((lo + hi + 1) \div 2)

\* THREE.Vector2.length(), rounded down; the root lies between the longer leg
\* and the sum of the legs
Length2(dx, dy) == SqrtBetween(dx * dx + dy * dy, Max(Abs(dx), Abs(dy)), Abs(dx) + Abs(dy))

\* (palmPosition.x * 5, palmPosition.y * 5, 5), in 1/100
cursorWorldPos(palmPosition) == <<palmPosition[1] * 10, palmPosition[2] * 10, 500>>

\* twice the score of updateCursor, screenDistance + faceZ * 0.5, of a voxel
\* under the world rotation's matrix m, the cursor at cur and the zoom
Score2(voxel, m, cur, zoom) ==
    LET Score(faceInWorldSpace) ==
            2 * Length2(cur[1] - faceInWorldSpace[1], cur[2] - faceInWorldSpace[2])
                + (faceInWorldSpace[3] + zoom)
    IN Score(applyEuler(voxel.position, m))

\* the loop with "if (score <= closestDistance)"
RECURSIVE closestFrom_LastWins(_, _, _, _, _, _)
closestFrom_LastWins(s, m, cur, i, closest, closestDistance) ==
    IF i > Len(s.voxels) THEN closest
    ELSE LET Step(score) ==
                 IF closest = 0 \/ score <= closestDistance
                 THEN closestFrom_LastWins(s, m, cur, i + 1, i, score)
                 ELSE closestFrom_LastWins(s, m, cur, i + 1, closest, closestDistance)
         IN Step(Score2(s.voxels[i], m, cur, s.zoom))

\* the loop "for (const voxel of voxels) ... if (score < closestDistance)", from
\* the i-th voxel on; closest = 0 is closestVoxel = null, closestDistance = Infinity
RECURSIVE closestFrom(_, _, _, _, _, _)
closestFrom(s, m, cur, i, closest, closestDistance) ==
    IF i > Len(s.voxels) THEN closest
    ELSE LET Step(score) ==
                 IF closest = 0 \/ score < closestDistance
                 THEN closestFrom(s, m, cur, i + 1, i, score)
                 ELSE closestFrom(s, m, cur, i + 1, closest, closestDistance)
         IN Step(Score2(s.voxels[i], m, cur, s.zoom))

\* the matrix of the rotation the constructor sets, Euler(0.3, 0.5, 0), computed once
initialMatrix == eulerMatrix(<<300, 500, 0>>)

\* worldGroup's matrix: the matrix of state.worldRotation
worldMatrix(s) ==
    IF s.worldRotation = <<300, 500, 0>> THEN initialMatrix ELSE eulerMatrix(s.worldRotation)

closestVoxel(s, palmPosition) ==
    s.voxels[closestFrom(s, worldMatrix(s), cursorWorldPos(palmPosition), 1, 0, 0)]

\* 0: Right, 1: Left, 2: Top, 3: Bottom, 4: Front, 5: Back
faceNormals == << <<1, 0, 0>>, <<-1, 0, 0>>, <<0, 1, 0>>, <<0, -1, 0>>, <<0, 0, 1>>, <<0, 0, -1>> >>

\* the normals with the Left one of length 2
faceNormal_LongLeft(index) == VecScale(faceNormals[index + 1], IF index = 1 THEN 2 ELSE 1)

\* a normal of length 2
faceNormal_Doubled(index) == VecScale(faceNormals[index + 1], 2)

faceNormal(index) == faceNormals[index + 1]

\* the neighbour cell taken against the normal
neighborPos_Behind(voxel, index) == VecAdd(voxel.position, VecScale(faceNormal(index), -GRID_SIZE))

neighborPos(voxel, index) == VecAdd(voxel.position, VecScale(faceNormal(index), GRID_SIZE))

RECURSIVE unconnectedFrom(_, _, _)
unconnectedFrom(s, voxel, index) ==
    IF index > 5 THEN <<>>
    ELSE IF ~MapHas(s.voxels, positionToKey(neighborPos(voxel, index)))
         THEN <<index>> \o unconnectedFrom(s, voxel, index + 1)
         ELSE unconnectedFrom(s, voxel, index + 1)

\* the faces of the voxel whose neighbour cell is empty, in enumeration order
unconnectedFaces(s, voxel) == unconnectedFrom(s, voxel, 0)

\* Array.prototype.indexOf, 0-based, -1 when absent
indexOf(seq, x) ==
    IF \E i \in DOMAIN seq : seq[i] = x
    THEN (CHOOSE i \in DOMAIN seq : seq[i] = x /\ \A j \in 1..(i - 1) : seq[j] # x) - 1
    ELSE -1

\* "Surface Cycling": the face index after the rising edge of the ring pinch
cycleFace(s, voxel, faceIndex) ==
    LET Cycle(faces) ==
            IF Len(faces) > 0
            THEN faces[((indexOf(faces, faceIndex) + 1) % Len(faces)) + 1]
            ELSE faceIndex
    IN Cycle(unconnectedFaces(s, voxel))

NoTarget == [hasTarget |-> FALSE, canPlace |-> FALSE, canDelete |-> FALSE]

\* updateCursor with canPlace true of every target
updateCursor_CanPlace(s, palmPosition, ringPinch) ==
    IF Len(s.voxels) = 0
    THEN [scene |-> s, ret |-> NoTarget]
    ELSE LET Focus(closest) ==
                 LET Face(currentFaceIndex) ==
                         LET Target(target) ==
                                 [scene |-> [s EXCEPT !.targetVoxelId = Some(closest.id),
                                                      !.currentFaceIndex = currentFaceIndex,
                                                      !.targetFace = Some(faceNormal(currentFaceIndex)),
                                                      !.targetPosition = Some(target),
                                                      !.lastRingPinch = ringPinch],
                                  ret |-> [hasTarget |-> TRUE,
                                           canPlace |-> TRUE,
                                           canDelete |-> TRUE]]
                             Snapped(newPos) ==
                                 Target(<<snapToGrid(newPos[1]), snapToGrid(newPos[2]),
                                          snapToGrid(newPos[3])>>)
                         IN Snapped(neighborPos(closest, currentFaceIndex))
                     Reset(faceIndex) ==
                         Face(IF ringPinch /\ ~s.lastRingPinch
                              THEN cycleFace(s, closest, faceIndex)
                              ELSE faceIndex)
                 IN Reset(IF s.targetVoxelId # Some(closest.id) THEN 4 ELSE s.currentFaceIndex)
         IN Focus(closestVoxel(s, palmPosition))

updateCursor(s, palmPosition, ringPinch) ==
    IF Len(s.voxels) = 0
    THEN [scene |-> s, ret |-> NoTarget]
    ELSE LET Focus(closest) ==
                 LET Face(currentFaceIndex) ==
                         LET Target(target) ==
                                 [scene |-> [s EXCEPT !.targetVoxelId = Some(closest.id),
                                                      !.currentFaceIndex = currentFaceIndex,
                                                      !.targetFace = Some(faceNormal(currentFaceIndex)),
                                                      !.targetPosition = Some(target),
                                                      !.lastRingPinch = ringPinch],
                                  ret |-> [hasTarget |-> TRUE,
                                           canPlace |-> ~MapHas(s.voxels, positionToKey(target)),
                                           canDelete |-> TRUE]]
                             Snapped(newPos) ==
                                 Target(<<snapToGrid(newPos[1]), snapToGrid(newPos[2]),
                                          snapToGrid(newPos[3])>>)
                         IN Snapped(neighborPos(closest, currentFaceIndex))
                     Reset(faceIndex) ==
                         Face(IF ringPinch /\ ~s.lastRingPinch
                              THEN cycleFace(s, closest, faceIndex)
                              ELSE faceIndex)
                 IN Reset(IF s.targetVoxelId # Some(closest.id) THEN 4 ELSE s.currentFaceIndex)
         IN Focus(closestVoxel(s, palmPosition))

\* hideCursor without "this.state.targetPosition = null"
hideCursor_KeepsPosition(s) == [s EXCEPT !.targetVoxelId = Null, !.targetFace = Null]

\* a hideCursor that also releases the view's lock
hideCursor_Unlocks(s) ==
    [s EXCEPT !.targetVoxelId = Null, !.targetPosition = Null, !.targetFace = Null,
              !.isLocked = FALSE]

hideCursor(s) ==
    [s EXCEPT !.targetVoxelId = Null, !.targetPosition = Null, !.targetFace = Null]

-----------------------------------------------------------------------------
(* Targeting in the variant with automatic face selection: its updateCursor, *)
(* which maps the palm into the scene and picks the nearest free face         *)

\* (palmPosition.x * 12, palmPosition.y * 12, 0).applyEuler(worldRotation), in 1/100
handWorldPos(s, palmPosition) ==
    applyEuler(<<palmPosition[1] * 24, palmPosition[2] * 24, 0>>, worldMatrix(s))

\* the square of THREE.Vector3.distanceTo
distanceToSquared(a, b) ==
    (a[1] - b[1]) * (a[1] - b[1]) + (a[2] - b[2]) * (a[2] - b[2]) + (a[3] - b[3]) * (a[3] - b[3])

\* THREE.Vector3.distanceTo, rounded down
distanceTo(a, b) ==
    SqrtBetween(distanceToSquared(a, b),
                Max(Abs(a[1] - b[1]), Max(Abs(a[2] - b[2]), Abs(a[3] - b[3]))),
                Abs(a[1] - b[1]) + Abs(a[2] - b[2]) + Abs(a[3] - b[3]))

\* five times the variant's score, dist3D - depth * 0.8
AutoScore5(s, voxel, hand) ==
    5 * distanceTo(hand, voxel.position) - 4 * applyEuler(voxel.position, worldMatrix(s))[3]

\* the variant's selection loop, from the i-th voxel on
RECURSIVE autoClosestFrom(_, _, _, _, _)
autoClosestFrom(s, hand, i, closest, closestDistance) ==
    IF i > Len(s.voxels) THEN closest
    ELSE LET Step(score) ==
                 IF closest = 0 \/ score < closestDistance
                 THEN autoClosestFrom(s, hand, i + 1, i, score)
                 ELSE autoClosestFrom(s, hand, i + 1, closest, closestDistance)
         IN Step(AutoScore5(s, s.voxels[i], hand))

\* the centre of the voxel's face: position + normal * (GRID_SIZE * 0.5)
facePos(voxel, index) == VecAdd(voxel.position, VecScale(faceNormal(index), GRID_SIZE \div 2))

\* the loop of the automatic selection without its test of isOccupied
RECURSIVE bestFaceFrom_Covered(_, _, _, _, _, _)
bestFaceFrom_Covered(s, voxel, hand, index, bestFaceIndex, minFaceDist) ==
    IF index > 5 THEN bestFaceIndex
    ELSE LET Step(dist) ==
                 IF minFaceDist < 0 \/ dist < minFaceDist
                 THEN bestFaceFrom_Covered(s, voxel, hand, index + 1, index, dist)
                 ELSE bestFaceFrom_Covered(s, voxel, hand, index + 1, bestFaceIndex, minFaceDist)
         IN Step(distanceToSquared(hand, facePos(voxel, index)))

\* faceNormals.forEach(... if (!isOccupied && dist < minFaceDist) ...), from face
\* index on; minFaceDist < 0 is Infinity, and distances are compared by their squares
RECURSIVE bestFaceFrom(_, _, _, _, _, _)
bestFaceFrom(s, voxel, hand, index, bestFaceIndex, minFaceDist) ==
    IF index > 5 THEN bestFaceIndex
    ELSE LET Step(dist) ==
                 IF /\ ~MapHas(s.voxels, positionToKey(neighborPos(voxel, index)))
                    /\ (minFaceDist < 0 \/ dist < minFaceDist)
                 THEN bestFaceFrom(s, voxel, hand, index + 1, index, dist)
                 ELSE bestFaceFrom(s, voxel, hand, index + 1, bestFaceIndex, minFaceDist)
         IN Step(distanceToSquared(hand, facePos(voxel, index)))

\* updateCursor of the variant
updateCursorAuto(s, palmPosition, ringPinch) ==
    IF Len(s.voxels) = 0
    THEN [scene |-> s, ret |-> NoTarget]
    ELSE LET Focus(closest, hand) ==
                 LET Face(currentFaceIndex) ==
                         LET Target(target) ==
                                 [scene |-> [s EXCEPT !.targetVoxelId = Some(closest.id),
                                                      !.currentFaceIndex = currentFaceIndex,
                                                      !.targetFace = Some(faceNormal(currentFaceIndex)),
                                                      !.targetPosition = Some(target),
                                                      !.lastRingPinch = ringPinch],
                                  ret |-> [hasTarget |-> TRUE,
                                           canPlace |-> ~MapHas(s.voxels, positionToKey(target)),
                                           canDelete |-> TRUE]]
                             Snapped(newPos) ==
                                 Target(<<snapToGrid(newPos[1]), snapToGrid(newPos[2]),
                                          snapToGrid(newPos[3])>>)
                         IN Snapped(neighborPos(closest, currentFaceIndex))
                     Cycle(faceIndex) ==
                         Face(IF ringPinch /\ ~s.lastRingPinch
                              THEN cycleFace(s, closest, faceIndex)
                              ELSE faceIndex)
                     Auto(faceIndex) ==
                         Cycle(IF ~ringPinch
                               THEN bestFaceFrom(s, closest, hand, 0, faceIndex, -1)
                               ELSE faceIndex)
                 IN Auto(IF s.targetVoxelId # Some(closest.id) THEN 4 ELSE s.currentFaceIndex)
             At1(hand) == Focus(s.voxels[autoClosestFrom(s, hand, 1, 0, 0)], hand)
         IN At1(handWorldPos(s, palmPosition))

-----------------------------------------------------------------------------
(* Orbit: VoxelScene.updateLeftHand / animate *)

\* v *= INERTIA_DAMPING (0.95), rounded towards zero
Damp(v) == IF v >= 0 THEN (v * INERTIA_DAMPING) \div 100 ELSE -(((-v) * INERTIA_DAMPING) \div 100)

\* the zoom without its clamp
clampZoom_None(z) == z

\* Math.max(3, Math.min(20, zoom))
clampZoom(z) == Max(ZOOM_MIN, Min(ZOOM_MAX, z))

\* Math.max(-Math.PI / 2, Math.min(Math.PI / 2, x))
clampPitch(x) == Max(-HALF_PI, Min(HALF_PI, x))

\* updateLeftHand without the "if (pinkyPinch)" block
updateLeftHand_NoLock(s, palmPosition, indexPinch, middlePinch, ringPinch, pinkyPinch) ==
    LET Zoom(s2) ==
            IF middlePinch THEN [s2 EXCEPT !.zoomVelocity = -ZOOM_SPEED]
            ELSE IF ringPinch THEN [s2 EXCEPT !.zoomVelocity = ZOOM_SPEED]
            ELSE s2
    IN Zoom(IF indexPinch
            THEN [s EXCEPT
                    !.isLocked = FALSE,
                    !.isRotating = TRUE,
                    !.rotationVelocity =
                        IF s.lastPalmPosition # Null
                        THEN <<(palmPosition[1] - s.lastPalmPosition[1][1]) * s.sensitivity,
                               -((palmPosition[2] - s.lastPalmPosition[1][2]) * s.sensitivity)>>
                        ELSE @,
                    !.lastPalmPosition = Some(palmPosition)]
            ELSE [s EXCEPT !.isLocked = FALSE, !.isRotating = FALSE, !.lastPalmPosition = Null])

\* updateLeftHand without "this.state.zoomVelocity = 0" in its lock block
updateLeftHand_LockKeepsZoom(s, palmPosition, indexPinch, middlePinch, ringPinch, pinkyPinch) ==
    IF pinkyPinch
    THEN [s EXCEPT !.isLocked = TRUE,
                   !.rotationVelocity = <<0, 0>>,
                   !.lastPalmPosition = Null]
    ELSE updateLeftHand_NoLock(s, palmPosition, indexPinch, middlePinch, ringPinch, pinkyPinch)

\* updateLeftHand with "if (ringPinch) ... else if (middlePinch)": zoom-out first
updateLeftHand_ZoomOutFirst(s, palmPosition, indexPinch, middlePinch, ringPinch, pinkyPinch) ==
    IF ringPinch /\ ~pinkyPinch
    THEN [updateLeftHand_NoLock(s, palmPosition, indexPinch, FALSE, FALSE, FALSE)
             EXCEPT !.zoomVelocity = ZOOM_SPEED]
    ELSE updateLeftHand_LockKeepsZoom(s, palmPosition, indexPinch, middlePinch, FALSE, pinkyPinch)

updateLeftHand(s, palmPosition, indexPinch, middlePinch, ringPinch, pinkyPinch) ==
    IF pinkyPinch
    THEN [s EXCEPT !.isLocked = TRUE,
                   !.rotationVelocity = <<0, 0>>,
                   !.zoomVelocity = 0,
                   !.lastPalmPosition = Null]
    ELSE LET Zoom(s2) ==
                 IF middlePinch THEN [s2 EXCEPT !.zoomVelocity = -ZOOM_SPEED]
                 ELSE IF ringPinch THEN [s2 EXCEPT !.zoomVelocity = ZOOM_SPEED]
                 ELSE s2
         IN Zoom(IF indexPinch
                 THEN [s EXCEPT
                         !.isLocked = FALSE,
                         !.isRotating = TRUE,
                         !.rotationVelocity =
                             IF s.lastPalmPosition # Null
                             THEN <<(palmPosition[1] - s.lastPalmPosition[1][1]) * s.sensitivity,
                                    -((palmPosition[2] - s.lastPalmPosition[1][2]) * s.sensitivity)>>
                             ELSE @,
                         !.lastPalmPosition = Some(palmPosition)]
                 ELSE [s EXCEPT !.isLocked = FALSE, !.isRotating = FALSE, !.lastPalmPosition = Null])

\* a render tick that releases the view's lock
animate_Unlocks(s) == [s EXCEPT !.animationId = @ + 1, !.isLocked = FALSE]

animate(s) ==
    IF ~s.isLocked
    THEN LET Move(vel) ==
                 [s EXCEPT !.animationId = @ + 1,
                           !.rotationVelocity = vel,
                           !.worldRotation = <<clampPitch(@[1] + vel[2]), @[2] + vel[1], @[3]>>,
                           !.zoom = clampZoom(@ + s.zoomVelocity),
                           !.zoomVelocity = Damp(@)]
         IN Move(IF ~s.isRotating
                 THEN <<Damp(s.rotationVelocity[1]), Damp(s.rotationVelocity[2])>>
                 ELSE s.rotationVelocity)
    ELSE [s EXCEPT !.animationId = @ + 1]

-----------------------------------------------------------------------------
(* The gesture classifier: analyzeGestures / processHandGestures.  A landmark *)
(* is <<x, y, z>> in 1/100 of the normalized image; a palm position is in     *)
(* 1/50, as everywhere.                                                       *)

PINCH_THRESHOLD == 6
HAND_OPEN_THRESHOLD == 15

THUMB_TIP == 4
INDEX_TIP == 8
MIDDLE_TIP == 12
INDEX_MCP == 5
WRIST == 0
MIDDLE_MCP == 9
PINKY_MCP == 17

\* landmarks[i]: the i-th element, counted from 0, or undefined (null here)
At(landmarks, i) == IF i < Len(landmarks) THEN Some(landmarks[i + 1]) ELSE Null

\* what a call does: it throws (a TypeError, on reading x of undefined), or returns
Thrown == [threw |-> TRUE, value |-> Null]
Returned(v) == [threw |-> FALSE, value |-> Some(v)]

\* the square of distance3D(a, b)
distance3D(a, b) ==
    (a[1] - b[1]) * (a[1] - b[1]) + (a[2] - b[2]) * (a[2] - b[2]) + (a[3] - b[3]) * (a[3] - b[3])

landmarkToVector3(landmark) == <<landmark[1] - 50, -(landmark[2] - 50), -landmark[3]>>

\* computePalmRotation reads the wrist and three knuckles; the quaternion it
\* returns is read by nothing in the engine and is not computed here
computePalmRotation(landmarks) ==
    IF \E i \in {WRIST, MIDDLE_MCP, INDEX_MCP, PINKY_MCP} : At(landmarks, i) = Null
    THEN Thrown
    ELSE Returned("quaternion")

isHandOpen(landmarks) ==
    /\ distance3D(At(landmarks, WRIST)[1], At(landmarks, INDEX_TIP)[1])
           > HAND_OPEN_THRESHOLD * HAND_OPEN_THRESHOLD
    /\ distance3D(At(landmarks, WRIST)[1], At(landmarks, MIDDLE_TIP)[1])
           > HAND_OPEN_THRESHOLD * HAND_OPEN_THRESHOLD

analyzeGestures(landmarks) ==
    LET Read(thumbTip, indexTip, middleTip, indexMcp, wrist) ==
            IF thumbTip = Null \/ indexTip = Null \/ middleTip = Null THEN Thrown
            ELSE IF indexMcp = Null \/ wrist = Null THEN Thrown
            ELSE IF computePalmRotation(landmarks).threw THEN Thrown
            ELSE Returned([indexThumbPinch |-> distance3D(thumbTip[1], indexTip[1])
                                                  < PINCH_THRESHOLD * PINCH_THRESHOLD,
                           middleThumbPinch |-> distance3D(thumbTip[1], middleTip[1])
                                                   < PINCH_THRESHOLD * PINCH_THRESHOLD,
                           palmPosition |-> landmarkToVector3(wrist[1]),
                           handOpen |-> isHandOpen(landmarks)])
    IN Read(At(landmarks, THUMB_TIP), At(landmarks, INDEX_TIP), At(landmarks, MIDDLE_TIP),
            At(landmarks, INDEX_MCP), At(landmarks, WRIST))

\* leftHand ? analyzeGestures(leftHand) : null -- every array is truthy, the empty one too
processHandGestures(leftHand, rightHand) ==
    LET Both(left, right) ==
            IF left.threw \/ right.threw THEN Thrown
            ELSE Returned([left |-> left.value[1], right |-> right.value[1]])
    IN Both(IF leftHand # Null THEN analyzeGestures(leftHand[1]) ELSE Returned(Null),
            IF rightHand # Null THEN analyzeGestures(rightHand[1]) ELSE Returned(Null))

-----------------------------------------------------------------------------
(* The component: VoxelBuilder *)

\* the scene as the constructor leaves it, before placeInitialCube and animate
newScene ==
    [voxels |-> <<>>,
     targetPosition |-> Null,
     targetVoxelId |-> Null,
     targetFace |-> Null,
     worldRotation |-> <<300, 500, 0>>,
     rotationVelocity |-> <<0, 0>>,
     zoom |-> 800,
     zoomVelocity |-> 0,
     isLocked |-> FALSE,
     isRotating |-> FALSE,
     lastPalmPosition |-> Null,
     sensitivity |-> 3,
     currentFaceIndex |-> -1,
     lastRingPinch |-> FALSE,
     animationId |-> 0]

\* new VoxelScene(container)
VoxelScene == animate(placeInitialCube(newScene))

\* new HandTracker(): hands, camera (are they set), isRunning, and whether its
\* initialize is at its await
HandTracker == [hands |-> FALSE, camera |-> FALSE, isRunning |-> FALSE, initializing |-> FALSE]

\* HandTracker.start
HandTrackerStart(t) == IF t.camera /\ ~t.isRunning THEN [t EXCEPT !.isRunning = TRUE] ELSE t

\* HandTracker.stop
HandTrackerStop(t) == IF t.camera /\ t.isRunning THEN [t EXCEPT !.isRunning = FALSE] ELSE t

\* HandTracker.destroy: stop(), hands.close(), hands = null, camera = null
HandTrackerDestroy(t) == [HandTrackerStop(t) EXCEPT !.hands = FALSE, !.camera = FALSE]

\* the hook after its first render and the first run of its effect, which has
\* set the timeout; trackerRef holds the index of a tracker in trackers
useHandTracking ==
    [mounted |-> TRUE, showOverlay |-> TRUE, isInitialized |-> FALSE, isRunning |-> FALSE,
     error |-> FALSE, trackerRef |-> Null, timeoutId |-> TRUE, trackers |-> <<>>]

\* the effect's cleanup: clearTimeout, and destroy of the tracker the reference holds
EffectCleanup(h) ==
    IF h.trackerRef # Null
    THEN [h EXCEPT !.timeoutId = FALSE,
                   !.trackers[h.trackerRef[1]] = HandTrackerDestroy(@),
                   !.trackerRef = Null]
    ELSE [h EXCEPT !.timeoutId = FALSE]

NoCall == [op |-> "mount", ret |-> Null]

\* useState config: both hands enabled, the sensitivity 1.5 (in 1/2)
InitialConfig == [leftHandEnabled |-> TRUE, rightHandEnabled |-> TRUE, sensitivity |-> 3]

\* the component's state over the scene s, before any frame
Component(s) ==
    /\ scene = s
    /\ lastGesture = [rightIndexPinch |-> FALSE, rightMiddlePinch |-> FALSE]
    /\ voxelCount = getVoxelCount(s)
    /\ isLocked = FALSE
    /\ cursorStatus = NoTarget
    /\ gestures = [left |-> Null, right |-> Null]
    /\ config = InitialConfig
    /\ result = [leftHand |-> Null, rightHand |-> Null]
    /\ newGestures = Null
    /\ presses = [place |-> FALSE, delete |-> FALSE, away |-> FALSE, placeEdges |-> 0,
                  deleteEdges |-> 0, placed |-> 0, removed |-> 0]
    /\ tracking = useHandTracking

\* the component once mounted, over the scene s
Mounted(s) == Component(s) /\ call = NoCall

Init == Mounted(VoxelScene)

Hand(palm, index, middle, ring, pinky) ==
    [palmPosition |-> palm, indexThumbPinch |-> index, middleThumbPinch |-> middle,
     ringThumbPinch |-> ring, pinkyThumbPinch |-> pinky]

\* the voxel maps explored: at most MaxVoxels voxels, in the origin's cell and
\* the six cells that share a face with it
InBox(s) ==
    /\ Len(s.voxels) <= MaxVoxels
    /\ \A i \in DOMAIN s.voxels :
           Abs(snapToGrid(s.voxels[i].position[1])) + Abs(snapToGrid(s.voxels[i].position[2]))
               + Abs(snapToGrid(s.voxels[i].position[3])) <= GRID_SIZE

\* the pinch read by its level, not by its edge
pinchStarted_Level(pinch, lastPinch) == pinch

\* gestures.right.indexThumbPinch && !lastGesture.rightIndexPinch, and the same
\* for the middle finger: the pinch is there now and was not in the last frame
pinchStarted(pinch, lastPinch) == pinch /\ ~lastPinch

\* a scene method called in a run of processGestures, and what it returned
Called(op, ret) == [op |-> op, ret |-> ret]

\* processGestures with the delete step before the place step
processGestures_DeleteFirst(g, cfg, op) ==
    \E orbit \in {g.left # Null /\ cfg.leftHandEnabled} :
    \E s1 \in {IF orbit
               THEN updateLeftHand(scene, g.left[1].palmPosition, g.left[1].indexThumbPinch,
                                   g.left[1].middleThumbPinch, g.left[1].ringThumbPinch,
                                   g.left[1].pinkyThumbPinch)
               ELSE scene} :
        /\ isLocked' = IF orbit THEN isLockedState(s1) ELSE isLocked
        /\ UNCHANGED <<result, newGestures>>
        /\ IF g.right # Null /\ cfg.rightHandEnabled
           THEN \E uc \in {updateCursor(s1, g.right[1].palmPosition, g.right[1].ringThumbPinch)} :
                \E delete \in {/\ pinchStarted(g.right[1].middleThumbPinch, lastGesture.rightMiddlePinch)
                               /\ uc.ret.canDelete} :
                \E dc \in {IF delete THEN deleteCube(uc.scene) ELSE [scene |-> uc.scene, ret |-> FALSE]} :
                \E place \in {/\ pinchStarted(g.right[1].indexThumbPinch, lastGesture.rightIndexPinch)
                              /\ uc.ret.canPlace} :
                \E pc \in {IF place THEN placeCube(dc.scene) ELSE [scene |-> dc.scene, ret |-> FALSE]} :
                    /\ InBox(pc.scene)
                    /\ scene' = pc.scene
                    /\ cursorStatus' = uc.ret
                    /\ voxelCount' = IF pc.ret THEN getVoxelCount(pc.scene)
                                     ELSE IF dc.ret THEN getVoxelCount(dc.scene)
                                     ELSE voxelCount
                    /\ lastGesture' = [rightIndexPinch |-> g.right[1].indexThumbPinch,
                                       rightMiddlePinch |-> g.right[1].middleThumbPinch]
                    /\ call' = [op |-> op,
                                ret |-> Some((IF orbit THEN <<Called("updateLeftHand", Null)>> ELSE <<>>)
                                             \o <<Called("updateCursor", Some(uc.ret))>>
                                             \o (IF delete THEN <<Called("deleteCube", Some(dc.ret))>> ELSE <<>>)
                                             \o (IF place THEN <<Called("placeCube", Some(pc.ret))>> ELSE <<>>))]
           ELSE /\ scene' = hideCursor(s1)
                /\ cursorStatus' = NoTarget
                /\ call' = [op |-> op,
                            ret |-> Some((IF orbit THEN <<Called("updateLeftHand", Null)>> ELSE <<>>)
                                         \o <<Called("hideCursor", Null)>>)]
                /\ UNCHANGED <<voxelCount, lastGesture>>

\* processGestures(g) under configuration cfg, on the scene s0
processGesturesOn(s0, g, cfg, op) ==
    \E orbit \in {g.left # Null /\ cfg.leftHandEnabled} :
    \E s1 \in {IF orbit
               THEN updateLeftHand(s0, g.left[1].palmPosition, g.left[1].indexThumbPinch,
                                   g.left[1].middleThumbPinch, g.left[1].ringThumbPinch,
                                   g.left[1].pinkyThumbPinch)
               ELSE s0} :
        /\ isLocked' = IF orbit THEN isLockedState(s1) ELSE isLocked
        /\ UNCHANGED <<result, newGestures>>
        /\ IF g.right # Null /\ cfg.rightHandEnabled
           THEN \E uc \in {updateCursor(s1, g.right[1].palmPosition, g.right[1].ringThumbPinch)} :
                \E place \in {/\ pinchStarted(g.right[1].indexThumbPinch, lastGesture.rightIndexPinch)
                              /\ uc.ret.canPlace} :
                \E pc \in {IF place THEN placeCube(uc.scene) ELSE [scene |-> uc.scene, ret |-> FALSE]} :
                \E delete \in {/\ pinchStarted(g.right[1].middleThumbPinch, lastGesture.rightMiddlePinch)
                               /\ uc.ret.canDelete} :
                \E dc \in {IF delete THEN deleteCube(pc.scene) ELSE [scene |-> pc.scene, ret |-> FALSE]} :
                    /\ InBox(dc.scene)
                    /\ scene' = dc.scene
                    /\ cursorStatus' = uc.ret
                    /\ voxelCount' = IF dc.ret THEN getVoxelCount(dc.scene)
                                     ELSE IF pc.ret THEN getVoxelCount(pc.scene)
                                     ELSE voxelCount
                    /\ lastGesture' = [rightIndexPinch |-> g.right[1].indexThumbPinch,
                                       rightMiddlePinch |-> g.right[1].middleThumbPinch]
                    /\ call' = [op |-> op,
                                ret |-> Some((IF orbit THEN <<Called("updateLeftHand", Null)>> ELSE <<>>)
                                             \o <<Called("updateCursor", Some(uc.ret))>>
                                             \o (IF place THEN <<Called("placeCube", Some(pc.ret))>> ELSE <<>>)
                                             \o (IF delete THEN <<Called("deleteCube", Some(dc.ret))>> ELSE <<>>))]
           ELSE /\ scene' = hideCursor(s1)
                /\ cursorStatus' = NoTarget
                /\ call' = [op |-> op,
                            ret |-> Some((IF orbit THEN <<Called("updateLeftHand", Null)>> ELSE <<>>)
                                         \o <<Called("hideCursor", Null)>>)]
                /\ UNCHANGED <<voxelCount, lastGesture>>

\* processGestures(g) under configuration cfg
processGestures(g, cfg, op) == processGesturesOn(scene, g, cfg, op)

\* the palm positions explored: (0, 0), whose cursor is over the origin's cell,
\* and (0.1, -0.06), whose cursor is over the cell in front of it
Palms == {<<0, 0>>, <<5, -3>>}

\* the build hand: its pinky is read by nothing
BuildHands ==
    {Some(Hand(p, i, m, r, FALSE)) : p \in Palms, i \in BOOLEAN, m \in BOOLEAN, r \in BOOLEAN}

OrbitHands ==
    {Some(Hand(p, i, m, r, k)) : p \in Palms, i \in BOOLEAN, m \in BOOLEAN, r \in BOOLEAN,
                                 k \in BOOLEAN}

\* handleResults: setGestures(newGestures), then the effect runs processGestures
Frame(g) ==
    /\ gestures' = g
    /\ config' = config
    /\ processGestures(g, config, "frame")
    /\ UNCHANGED <<presses, tracking>>

\* a frame that shows the build hand, or no hand
BuildFrame == \E h \in BuildHands \cup {Null} : Frame([left |-> Null, right |-> h])

\* a frame that shows the orbit hand, or no hand
OrbitFrame == \E h \in OrbitHands \cup {Null} : Frame([left |-> h, right |-> Null])

\* the render tick: requestAnimationFrame runs animate
Animate ==
    /\ scene.animationId <= MaxTicks
    /\ scene' = animate(scene)
    /\ call' = [op |-> "animate", ret |-> Null]
    /\ UNCHANGED <<lastGesture, voxelCount, isLocked, cursorStatus, gestures, config,
                   result, newGestures, presses, tracking>>

\* handleConfigChange(key, value) for the build hand's switch: setConfig, then the
\* effect runs processGestures again, on the same gestures, under the new configuration
HandleConfigChange ==
    \E key \in {"rightHandEnabled"}, value \in BOOLEAN :
        /\ config' = [config EXCEPT ![key] = value]
        /\ gestures' = gestures
        /\ processGestures(gestures, config', "config")
        /\ UNCHANGED <<presses, tracking>>

\* handleClear: clearAll(), setVoxelCount(1)
HandleClear ==
    /\ scene' = clearAll(scene)
    /\ voxelCount' = 1
    /\ call' = [op |-> "clear", ret |-> Null]
    /\ UNCHANGED <<lastGesture, isLocked, cursorStatus, gestures, config, result, newGestures,
                   presses, tracking>>

Next == BuildFrame \/ HandleClear

Spec == Init /\ [][Next]_vars

-----------------------------------------------------------------------------
(* The build hand switched off and on in the settings, between frames in     *)
(* which it places and deletes at the face it finds selected                 *)

PlaceHands == {Some(Hand(p, i, m, FALSE, FALSE)) : p \in Palms, i \in BOOLEAN, m \in BOOLEAN}

PlaceFrame == \E h \in PlaceHands \cup {Null} : Frame([left |-> Null, right |-> h])

NextConfig == PlaceFrame \/ HandleConfigChange

SpecConfig == Init /\ [][NextConfig]_vars

-----------------------------------------------------------------------------
(* The orbit: frames of the orbit hand between render ticks *)

\* the zoom distances the orbit is explored from: the constructor's 8, and the
\* distances one step inside the limits, where earlier zoom frames bring it
StartZooms == {ZOOM_MIN + 1, 800, ZOOM_MAX - 1}

InitOrbit == \E z \in StartZooms : Mounted([VoxelScene EXCEPT !.zoom = z])

NextOrbit == OrbitFrame \/ Animate

SpecOrbit == InitOrbit /\ [][NextOrbit]_vars

-----------------------------------------------------------------------------
(* The scene by itself: its public methods, called in any order *)

SceneCall(op, r) ==
    /\ InBox(r.scene)
    /\ scene' = r.scene
    /\ call' = [op |-> op, ret |-> Some(r.ret)]
    /\ UNCHANGED <<lastGesture, voxelCount, isLocked, cursorStatus, gestures, config,
                   result, newGestures, presses, tracking>>

UpdateCursor == \E p \in Palms, ringPinch \in BOOLEAN : SceneCall("updateCursor", updateCursor(scene, p, ringPinch))

HideCursor == SceneCall("hideCursor", [scene |-> hideCursor(scene), ret |-> Null])

PlaceCube == SceneCall("placeCube", placeCube(scene))

DeleteCube == SceneCall("deleteCube", deleteCube(scene))

ClearAll == SceneCall("clearAll", [scene |-> clearAll(scene), ret |-> Null])

\* exportData(), then importData of what it returned
ImportData ==
    \E data \in {exportData(scene)} :
        SceneCall("importData", [scene |-> importData(scene, data), ret |-> data])

\* the coordinates a file may hold: two in the cell in front of the origin, off
\* its centre to either side, the x of the second rounding to -0; and the centre
\* of the cell to the right of the origin
FileCoords == {<<0, 0, 140>>, <<-30, 0, 60>>, <<100, 0, 0>>}

\* the lists of coordinates a file may hold
Files == UNION {[1..n -> FileCoords] : n \in 0..MaxFile}

\* importData of a list read from a file (handleOpen: JSON.parse, then importData)
ImportFile ==
    \E data \in Files :
        SceneCall("importFile", [scene |-> importData(scene, data), ret |-> data])

NextScene ==
    UpdateCursor \/ HideCursor \/ PlaceCube \/ DeleteCube \/ ClearAll \/ ImportData \/ ImportFile

SpecScene == Init /\ [][NextScene]_vars

-----------------------------------------------------------------------------
(* The classifier by itself: handleResults hands it the tracker's lists *)

\* the pose of a hand: 0 open, 1 thumb on index, 2 thumb on middle finger
Poses == 0..2

\* the i-th landmark (from 0) of a hand in the pose
Landmark(i, pose) ==
    IF i = THUMB_TIP THEN <<50, 50, 0>>
    ELSE IF i = INDEX_TIP THEN (IF pose = 1 THEN <<52, 51, 0>> ELSE <<58, 20, 0>>)
    ELSE IF i = MIDDLE_TIP THEN (IF pose = 2 THEN <<51, 52, 0>> ELSE <<64, 18, 0>>)
    ELSE <<40 + i, 90 - 2 * i, 0>>

\* the lists the tracker may hand over: the first n landmarks of a hand
LandmarkLists == {Some([i \in 1..n |-> Landmark(i - 1, pose)]) : n \in 0..MaxLandmarks, pose \in Poses}

\* the other hand in those frames: absent, or a list that is empty, that stops
\* just before or just after the last landmark read, or that is whole
OtherLists == {Some([i \in 1..n |-> Landmark(i - 1, 0)]) : n \in {0, PINKY_MCP, PINKY_MCP + 1, MaxLandmarks}}

\* handleResults(result): newGestures = processHandGestures(result.leftHand, result.rightHand)
HandleResults ==
    \E leftHand \in LandmarkLists \cup {Null}, rightHand \in OtherLists \cup {Null} :
        /\ result' = [leftHand |-> leftHand, rightHand |-> rightHand]
        /\ newGestures' = Some(processHandGestures(leftHand, rightHand))
        /\ call' = [op |-> "handleResults", ret |-> Null]
        /\ UNCHANGED <<scene, lastGesture, voxelCount, isLocked, cursorStatus, gestures, config,
                       presses, tracking>>

SpecGesture == Init /\ [][HandleResults]_vars

-----------------------------------------------------------------------------
(* The presses tallied: frames of the build hand, which comes and goes, and   *)
(* the build hand's switch, with a count of what the pinches did and of what  *)
(* the map gained and lost                                                    *)

\* the tally once frame g has arrived.  The level of a pinch is the one the last
\* frame that showed the build hand gave it, and a press is a frame that shows
\* the pinch asserted when its level was false: a pinch held while the hand is
\* out of sight, or switched off, is one press.
Pressed(g) ==
    IF g.right = Null
    THEN presses
    ELSE [presses EXCEPT
            !.place = g.right[1].indexThumbPinch,
            !.delete = g.right[1].middleThumbPinch,
            !.away = @ /\ g.right[1].indexThumbPinch,
            !.placeEdges = IF g.right[1].indexThumbPinch /\ ~presses.place THEN @ + 1 ELSE @,
            !.deleteEdges = IF g.right[1].middleThumbPinch /\ ~presses.delete THEN @ + 1 ELSE @]

\* the tally p once processGestures has run: the voxels the run added to the map
\* and removed from it, and whether it ran without the build hand, absent or
\* switched off, while the place pinch was held
Counted(p) ==
    [p EXCEPT !.placed = @ + Cardinality(Keys(scene'.voxels) \ Keys(scene.voxels)),
              !.removed = @ + Cardinality(Keys(scene.voxels) \ Keys(scene'.voxels)),
              !.away = @ \/ (p.place /\ ~(gestures'.right # Null /\ config'.rightHandEnabled))]

\* a frame, tallied
PressFrame ==
    \E h \in PlaceHands \cup {Null} :
    \E p \in {Pressed([left |-> Null, right |-> h])} :
        /\ p.placeEdges <= MaxPresses
        /\ p.deleteEdges <= MaxPresses
        /\ gestures' = [left |-> Null, right |-> h]
        /\ config' = config
        /\ processGestures(gestures', config, "frame")
        /\ presses' = Counted(p)
        /\ UNCHANGED tracking

\* handleConfigChange for the build hand's switch, tallied: no frame arrives
PressConfigChange ==
    \E key \in {"rightHandEnabled"}, value \in BOOLEAN :
        /\ config' = [config EXCEPT ![key] = value]
        /\ gestures' = gestures
        /\ processGestures(gestures, config', "config")
        /\ presses' = Counted(presses)
        /\ UNCHANGED tracking

NextPress == PressFrame \/ PressConfigChange

SpecPress == Init /\ [][NextPress]_vars

-----------------------------------------------------------------------------
(* The keys by themselves: positionToKey called on two positions *)

\* the coordinates explored: -1.1 and 1.1, which have neighbours on both sides;
\* -0.5 and -0.3, which round to -0; 0; 0.4 and 0.5, the two sides of a cell's
\* border; 11, whose digits are those of 1, twice
Coords == {-110, -50, -30, 0, 40, 50, 110, 1100}

Positions == {<<x, y, z>> : x \in Coords, y \in Coords, z \in {-30, 0, 110, 1100}}

\* two positions, of which the second is in the plane z = 0 or far from it
InitKey ==
    \E p \in Positions, q \in {<<x, y, 0>> : x \in Coords, y \in Coords} \cup {<<0, 110, 1100>>} :
        /\ Component(VoxelScene)
        /\ call = [op |-> "positions", ret |-> Some(<<p, q>>)]

\* positionToKey(p) and positionToKey(q)
PositionToKey ==
    /\ call.op = "positions"
    /\ call' = [op |-> "positionToKey",
                ret |-> Some(<<[pos |-> call.ret[1][1], key |-> positionToKey(call.ret[1][1])],
                               [pos |-> call.ret[1][2], key |-> positionToKey(call.ret[1][2])]>>)]
    /\ UNCHANGED <<scene, lastGesture, voxelCount, isLocked, cursorStatus, gestures, config,
                   result, newGestures, presses, tracking>>

SpecKey == InitKey /\ [][PositionToKey]_vars

-----------------------------------------------------------------------------
(* Both hands in the frame: the orbit hand locks and rotates while the build *)
(* hand places and deletes                                                   *)

LockHands == {Some(Hand(<<0, 0>>, i, FALSE, FALSE, k)) : i \in BOOLEAN, k \in BOOLEAN}

BothFrame ==
    \E l \in LockHands \cup {Null}, h \in PlaceHands \cup {Null} : Frame([left |-> l, right |-> h])

SpecBoth == Init /\ [][BothFrame]_vars

-----------------------------------------------------------------------------
(* Targeting under two views: frames of the build hand over a scene that the *)
(* orbit has left as the constructor turned it, or facing the camera         *)

\* the world rotations explored: Euler(0.3, 0.5, 0), and no rotation, under which
\* the voxels of a column along z are one behind the other
Views == {<<300, 500, 0>>, <<0, 0, 0>>}

InitFocus == \E v \in Views : Mounted([VoxelScene EXCEPT !.worldRotation = v])

\* the build hand targeting, cycling the face and placing
FocusHands == {Some(Hand(p, i, FALSE, r, FALSE)) : p \in Palms, i \in BOOLEAN, r \in BOOLEAN}

FocusFrame == \E h \in FocusHands \cup {Null} : Frame([left |-> Null, right |-> h])

SpecFocus == InitFocus /\ [][FocusFrame]_vars

-----------------------------------------------------------------------------
(* The variant's targeting by itself, over maps read from files *)

\* the files the maps are read from: an empty one, which leaves the seed alone, a cube in front of it,
\* a cube to its right, and the six cubes that cover every face of the seed
AutoFiles ==
    {<<>>, << <<0, 0, 100>> >>, << <<100, 0, 0>> >>,
     << <<100, 0, 0>>, <<-100, 0, 0>>, <<0, 100, 0>>, <<0, -100, 0>>, <<0, 0, 100>>,
        <<0, 0, -100>> >>}

\* the palm positions of the variant's frames, about the centre of the picture
AutoPalms == {<<x, y>> : x \in {-3, 0, 3}, y \in {-3, 0, 3}}

InitAuto ==
    \E v \in Views, data \in AutoFiles :
        Mounted(importData([VoxelScene EXCEPT !.worldRotation = v], data))

\* a frame of the build hand, of which the variant's updateCursor is run
AutoCursor ==
    \E p \in AutoPalms, ringPinch \in BOOLEAN :
    \E r \in {updateCursorAuto(scene, p, ringPinch)} :
        /\ scene' = r.scene
        /\ gestures' = [left |-> Null, right |-> Some(Hand(p, FALSE, FALSE, ringPinch, FALSE))]
        /\ call' = [op |-> "updateCursor", ret |-> Some(r.ret)]
        /\ UNCHANGED <<lastGesture, voxelCount, isLocked, cursorStatus, config, result,
                       newGestures, presses, tracking>>

SpecAuto == InitAuto /\ [][AutoCursor]_vars

-----------------------------------------------------------------------------
(* The orbit hand leaving the picture, or switched off in the settings, while *)
(* the view is locked or turning                                              *)

\* the orbit hand at two places, with or without the rotate and the lock pinch
AwayHands ==
    {Some(Hand(p, i, FALSE, FALSE, k)) : p \in {<<0, 0>>, <<5, -3>>}, i \in BOOLEAN,
                                         k \in BOOLEAN}

\* a frame that shows the orbit hand or not, and the build hand or not
AwayFrame ==
    \E l \in AwayHands \cup {Null}, r \in {Null, Some(Hand(<<0, 0>>, FALSE, FALSE, FALSE, FALSE))} :
        Frame([left |-> l, right |-> r])

\* handleConfigChange(key, value) for the orbit hand's switch
HandleOrbitSwitch ==
    \E key \in {"leftHandEnabled"}, value \in BOOLEAN :
        /\ config' = [config EXCEPT ![key] = value]
        /\ gestures' = gestures
        /\ processGestures(gestures, config', "config")
        /\ UNCHANGED <<presses, tracking>>

NextAway == AwayFrame \/ HandleOrbitSwitch

SpecAway == Init /\ [][NextAway]_vars

-----------------------------------------------------------------------------
(* Render ticks between the frames of both hands, the reset and the reading *)
(* of a file, in any order                                                   *)

\* the orbit hand zooming in, or holding the lock pinch
TickOrbitHands ==
    {Some(Hand(<<0, 0>>, FALSE, TRUE, FALSE, FALSE)), Some(Hand(<<0, 0>>, FALSE, FALSE, FALSE, TRUE))}

\* the build hand before the middle of the picture, with or without a pinch
TickBuildHands == {Some(Hand(<<0, 0>>, i, m, FALSE, FALSE)) : i \in BOOLEAN, m \in BOOLEAN}

\* a landmark update: handleResults, then the effect runs processGestures
TickFrame ==
    \E l \in TickOrbitHands \cup {Null}, r \in TickBuildHands \cup {Null} :
        Frame([left |-> l, right |-> r])

\* the files opened: an empty list, and one cube in front of the origin
TickFiles == {<<>>, << <<0, 0, 100>> >>}

\* handleOpen, once the file is read: importData(data), setVoxelCount(getVoxelCount())
HandleOpen ==
    \E data \in TickFiles :
    \E s \in {importData(scene, data)} :
        /\ scene' = s
        /\ voxelCount' = getVoxelCount(s)
        /\ call' = [op |-> "open", ret |-> Null]
        /\ UNCHANGED <<lastGesture, isLocked, cursorStatus, gestures, config, result,
                       newGestures, presses, tracking>>

NextTick == TickFrame \/ Animate \/ HandleClear \/ HandleOpen

SpecTick == Init /\ [][NextTick]_vars

-----------------------------------------------------------------------------
(* The hand tracking hook: the effect that makes the tracker, its cleanup, the *)
(* buttons that start and stop tracking, and the overlay switch. The camera    *)
(* feed stays shown, so the video element is there when the timeout fires.     *)

\* a step of the hook, which leaves the scene and the component's state alone
Hook(op, h) ==
    /\ tracking' = h
    /\ call' = [op |-> op, ret |-> Null]
    /\ UNCHANGED <<scene, lastGesture, voxelCount, isLocked, cursorStatus, gestures, config,
                   result, newGestures, presses>>

\* the timeout fires: initTracker makes a HandTracker and calls initialize, which
\* sets hands and stops at "await this.hands.initialize()"
InitTracker ==
    /\ tracking.timeoutId
    /\ Len(tracking.trackers) < MaxTrackers
    /\ Hook("initTracker",
            [tracking EXCEPT !.timeoutId = FALSE,
                             !.trackers = Append(@, [HandTracker EXCEPT !.hands = TRUE,
                                                                        !.initializing = TRUE])])

\* hands.initialize() resolves: initialize makes the camera and returns, and
\* initTracker stores the tracker in trackerRef and sets isInitialized and error
InitializeResolved ==
    \E i \in DOMAIN tracking.trackers :
        /\ tracking.trackers[i].initializing
        /\ Hook("initialized",
                [tracking EXCEPT !.trackers[i] = [@ EXCEPT !.initializing = FALSE, !.camera = TRUE],
                                 !.trackerRef = Some(i),
                                 !.isInitialized = TRUE,
                                 !.error = FALSE])

\* hands.initialize() rejects: initTracker's catch sets the error
InitializeRejected ==
    \E i \in DOMAIN tracking.trackers :
        /\ tracking.trackers[i].initializing
        /\ Hook("rejected",
                [tracking EXCEPT !.trackers[i] = [@ EXCEPT !.initializing = FALSE],
                                 !.error = TRUE])

\* the Start Tracking button, shown while isRunning is false and enabled once
\* isInitialized: start()
Start ==
    /\ tracking.mounted
    /\ ~tracking.isRunning
    /\ tracking.isInitialized
    /\ Hook("start",
            IF tracking.trackerRef # Null /\ tracking.isInitialized
            THEN [tracking EXCEPT !.trackers[tracking.trackerRef[1]] = HandTrackerStart(@),
                                  !.isRunning = TRUE]
            ELSE tracking)

\* the stop button, shown while isRunning is true: stop()
Stop ==
    /\ tracking.mounted
    /\ tracking.isRunning
    /\ Hook("stop",
            IF tracking.trackerRef # Null
            THEN [tracking EXCEPT !.trackers[tracking.trackerRef[1]] = HandTrackerStop(@),
                                  !.isRunning = FALSE]
            ELSE tracking)

\* the overlay switch: showOverlay changes, and with it handleResults, so the
\* effect's cleanup runs and the effect runs again, setting a new timeout
ToggleOverlay ==
    /\ tracking.mounted
    /\ Hook("overlay",
            [EffectCleanup(tracking) EXCEPT !.showOverlay = ~@, !.timeoutId = TRUE])

\* the component unmounts: the effect's last cleanup
Unmount ==
    /\ tracking.mounted
    /\ Hook("unmount", [EffectCleanup(tracking) EXCEPT !.mounted = FALSE])

NextTracking ==
    \/ InitTracker
    \/ InitializeResolved
    \/ InitializeRejected
    \/ Start
    \/ Stop
    \/ ToggleOverlay
    \/ Unmount

SpecTracking == Init /\ [][NextTracking]_vars

-----------------------------------------------------------------------------
(* The sensitivity slider moved between frames of the orbit hand *)

\* the slider's values explored, in 1/2: 1.0, 1.5 and 2.0 of its 1.0 to 10.0
Sensitivities == {2, 3, 4}

\* handleConfigChange('sensitivity', value): the updater calls
\* setSensitivity(value * 2) and returns the new configuration, then the effect
\* runs processGestures again
HandleSensitivityChange ==
    \E key \in {"sensitivity"}, value \in Sensitivities :
        /\ config' = [config EXCEPT ![key] = value]
        /\ gestures' = gestures
        /\ processGesturesOn(setSensitivity(scene, value * 2), gestures, config', "config")
        /\ UNCHANGED <<presses, tracking>>

\* a frame that shows the orbit hand, rotating or not, or no hand
SensitivityFrame == \E h \in AwayHands \cup {Null} : Frame([left |-> h, right |-> Null])

NextSensitivity == SensitivityFrame \/ HandleSensitivityChange

SpecSensitivity == Init /\ [][NextSensitivity]_vars

-----------------------------------------------------------------------------
(* Properties *)

\* the key of the seed voxel's cell
Origin == positionToKey(<<0, 0, 0>>)

\* the step is a run of processGestures
ProcessedFrame == call'.op \in {"frame", "config"}

\* that run reads the build hand
BuildHandRead == gestures'.right # Null /\ config'.rightHandEnabled

\* C1: from the seeded scene, whatever placeCube, deleteCube, clearAll and
\* targeting calls are made, the map holds at least one voxel; deleteCube called
\* on a map of exactly one voxel returns false and leaves the map as it was.
C1_NonEmpty ==
    /\ [](getVoxelCount(scene) >= 1)
    /\ [][(call'.op = "deleteCube" /\ getVoxelCount(scene) = 1)
              => (call'.ret = Some(FALSE) /\ scene'.voxels = scene.voxels)]_vars

\* deleteCube has refused to remove the focused voxel, the only one of the map
C1_Witness ==
    /\ call.op = "deleteCube"
    /\ call.ret = Some(FALSE)
    /\ getVoxelCount(scene) = 1
    /\ scene.targetVoxelId # Null
    /\ MapHas(scene.voxels, scene.targetVoxelId[1])

\* C2: in a run of processGestures that reads the build hand with the place
\* pinch asserted and canPlace true, one voxel is added, at the placement
\* coordinate, when the pinch was not asserted in the build-hand frame before,
\* and none when it was: a pinch held for N frames adds once, on the first.
C2_PlaceOnEdgeOnly ==
    [][(/\ ProcessedFrame
        /\ BuildHandRead
        /\ gestures'.right[1].indexThumbPinch
        /\ cursorStatus'.canPlace)
           => Keys(scene'.voxels) \ Keys(scene.voxels)
                  = IF lastGesture.rightIndexPinch
                    THEN {}
                    ELSE {positionToKey(scene'.targetPosition[1])}]_vars

\* a frame has been processed with the pinch still held and canPlace true, and
\* the placement cell is still free: no voxel was added in it
C2_Witness ==
    /\ call.op = "frame"
    /\ gestures.right # Null
    /\ gestures.right[1].indexThumbPinch
    /\ lastGesture.rightIndexPinch
    /\ cursorStatus.canPlace
    /\ scene.targetPosition # Null
    /\ ~MapHas(scene.voxels, positionToKey(scene.targetPosition[1]))
    /\ getVoxelCount(scene) = 2

\* C3: placeCube on a placement coordinate whose cell is occupied returns false
\* and leaves the map, the voxel object at that cell included, as it was; and
\* importData's addVoxelAt of the origin, which clearAll has just seeded, leaves
\* the seeded voxel object there.
C3_NoOverwrite ==
    [][/\ (/\ call'.op = "placeCube"
           /\ scene.targetPosition # Null
           /\ MapHas(scene.voxels, positionToKey(scene.targetPosition[1])))
              => (call'.ret = Some(FALSE) /\ scene'.voxels = scene.voxels)
       /\ (call'.op = "importData" /\ MapHas(scene.voxels, Origin))
              => MapGet(scene'.voxels, Origin) = MapGet(clearAll(scene).voxels, Origin)]_vars

\* placeCube has been refused at an occupied cell
C3_Witness ==
    /\ call.op = "placeCube"
    /\ call.ret = Some(FALSE)
    /\ scene.targetPosition # Null
    /\ MapHas(scene.voxels, positionToKey(scene.targetPosition[1]))

\* the frame shows the orbit hand, with the lock gesture asserted
LockFrame ==
    /\ call'.op = "frame"
    /\ gestures'.left # Null
    /\ config'.leftHandEnabled
    /\ gestures'.left[1].pinkyThumbPinch

\* the frame shows the orbit hand, with the lock gesture not asserted
UnlockFrame ==
    /\ call'.op = "frame"
    /\ gestures'.left # Null
    /\ config'.leftHandEnabled
    /\ ~gestures'.left[1].pinkyThumbPinch

\* C4: an orbit-hand update that asserts lock locks the scene, whatever other
\* gestures it asserts; the scene stays locked over every step that is not an
\* orbit-hand update without lock; and no step that starts or ends locked
\* changes the world orientation or the zoom distance.
C4_LockFreezes ==
    [][/\ LockFrame => scene'.isLocked
       /\ (scene.isLocked /\ ~UnlockFrame) => scene'.isLocked
       /\ (scene.isLocked \/ scene'.isLocked)
              => (scene'.worldRotation = scene.worldRotation /\ scene'.zoom = scene.zoom)]_vars

\* a render tick has run on a turned and zoomed scene, locked by an update that
\* also asserted rotate and zoom
C4_Witness ==
    /\ call.op = "animate"
    /\ scene.isLocked
    /\ gestures.left # Null
    /\ gestures.left[1].pinkyThumbPinch
    /\ gestures.left[1].indexThumbPinch
    /\ gestures.left[1].middleThumbPinch
    /\ scene.worldRotation # <<300, 500, 0>>
    /\ scene.zoom \notin StartZooms

\* C5: in every reachable state the zoom distance is within [3, 20].
C5_ZoomClamped == ZOOM_MIN <= scene.zoom /\ scene.zoom <= ZOOM_MAX

\* a render tick has stopped the zoom at its lower limit while zooming in
C5_Witness ==
    /\ call.op = "animate"
    /\ scene.zoom = ZOOM_MIN
    /\ scene.zoomVelocity < 0

\* C6 (as stated): after exportData and importData of the exported list, the
\* coordinates of the map are exactly the exported coordinates.
C6_RoundTrip ==
    call.op = "importData"
        => Keys(scene.voxels) = {positionToKey(call.ret[1][i]) : i \in DOMAIN call.ret[1]}

\* C7 (as stated): the canDelete that updateCursor returns is true exactly when
\* the focused voxel is in the map and the map holds more than one voxel.
C7_CanDelete ==
    call.op = "updateCursor"
        => (call.ret[1].canDelete
               <=> (/\ scene.targetVoxelId # Null
                    /\ MapHas(scene.voxels, scene.targetVoxelId[1])
                    /\ getVoxelCount(scene) > 1))

\* C8 (as stated): in every reachable state a voxel is at the origin.
C8_OriginAlways == MapHas(scene.voxels, Origin)

\* C8 (amended): the map is never empty; the origin voxel is there after
\* construction and after every clear, and it leaves the map only in a run of
\* processGestures that reads the build hand with the delete pinch starting.
C8_OriginLeavesByDelete ==
    /\ [](getVoxelCount(scene) >= 1)
    /\ [](call.op \in {"mount", "clear"} => MapHas(scene.voxels, Origin))
    /\ [][(MapHas(scene.voxels, Origin) /\ ~MapHas(scene'.voxels, Origin))
              => (/\ ProcessedFrame
                  /\ BuildHandRead
                  /\ gestures'.right[1].middleThumbPinch
                  /\ ~lastGesture.rightMiddlePinch)]_vars

\* the origin voxel has been deleted, another voxel is the only one left
C8_Witness == ~MapHas(scene.voxels, Origin) /\ getVoxelCount(scene) = 1

\* C9 (as stated): when a hand's landmark list has fewer than 21 points,
\* processHandGestures does not throw and reports that hand as null.
C9_ShortListIsAbsent ==
    newGestures # Null =>
        /\ (result.leftHand # Null /\ Len(result.leftHand[1]) < 21)
               => (~newGestures[1].threw /\ newGestures[1].value[1].left = Null)
        /\ (result.rightHand # Null /\ Len(result.rightHand[1]) < 21)
               => (~newGestures[1].threw /\ newGestures[1].value[1].right = Null)

\* C10: a run of processGestures that does not read the build hand, absent or
\* disabled, leaves the focused voxel id, the selected face and the placement
\* coordinate null, the three flags of the cursor status false, and the voxel
\* map as it was.
C10_AbsentClearsTarget ==
    [][(ProcessedFrame /\ ~BuildHandRead)
           => (/\ scene'.targetVoxelId = Null
               /\ scene'.targetFace = Null
               /\ scene'.targetPosition = Null
               /\ cursorStatus' = NoTarget
               /\ scene'.voxels = scene.voxels)]_vars

\* a frame whose build hand starts the place pinch has been processed with the
\* build hand disabled, on a map built before
C10_Witness ==
    /\ call.op = "frame"
    /\ ~config.rightHandEnabled
    /\ gestures.right # Null
    /\ gestures.right[1].indexThumbPinch
    /\ ~lastGesture.rightIndexPinch
    /\ getVoxelCount(scene) = 2
    /\ scene.targetPosition = Null
    /\ cursorStatus = NoTarget

\* C11: over any sequence of frames and switchings of the build hand, the voxels
\* removed are no more than the presses of the delete pinch, and the voxels
\* added no more than the presses of the place pinch, a pinch held while the
\* build hand is absent or disabled counting as one press; and no run of
\* processGestures adds or removes more than one voxel.
C11_AtMostOncePerPress ==
    /\ [](presses.placed <= presses.placeEdges /\ presses.removed <= presses.deleteEdges)
    /\ [][/\ presses'.placed <= presses.placed + 1
           /\ presses'.removed <= presses.removed + 1]_vars

\* the build hand is back, read, with the place pinch still held after frames
\* that went without it: the one press has added one voxel, and no more
C11_Witness ==
    /\ call.op = "frame"
    /\ gestures.right # Null
    /\ config.rightHandEnabled
    /\ gestures.right[1].indexThumbPinch
    /\ presses.away
    /\ presses.placeEdges = 1
    /\ presses.placed = 1
    /\ cursorStatus.canPlace

\* the two positions snap to the same grid cell on every axis (-0 is the cell 0)
SameCell(p, q) == \A axis \in 1..3 : snapToGrid(p[axis]) = snapToGrid(q[axis])

\* C12: positionToKey gives two positions the same key exactly when they snap
\* to the same grid cell on every axis, a coordinate that rounds to -0 being in
\* the cell 0.
C12_KeyIffSameCell ==
    call.op = "positionToKey"
        => (call.ret[1][1].key = call.ret[1][2].key
               <=> SameCell(call.ret[1][1].pos, call.ret[1][2].pos))

\* two positions that differ, one of them rounding to -0 on an axis and the
\* other to 0, have been given the same key
C12_Witness ==
    /\ call.op = "positionToKey"
    /\ call.ret[1][1].pos # call.ret[1][2].pos
    /\ snapsToNegativeZero(call.ret[1][1].pos[1])
    /\ call.ret[1][2].pos[1] >= 0
    /\ call.ret[1][1].key = call.ret[1][2].key

\* C13: after clearAll, whatever the map held, the map holds exactly one voxel,
\* and it is at the origin.
C13_ClearSeeds ==
    call.op = "clearAll"
        => (/\ getVoxelCount(scene) = 1
            /\ scene.voxels[1].position = <<0, 0, 0>>
            /\ scene.voxels[1].id = Origin)

\* clearAll has run on a map in which a voxel other than the origin's was focused
C13_Witness ==
    /\ call.op = "clearAll"
    /\ scene.targetVoxelId # Null
    /\ scene.targetVoxelId[1] # Origin

\* C15: whenever updateCursor reports a target, its canPlace is true exactly
\* when no voxel of the map is in the cell of the placement coordinate.
C15_CanPlaceIffFree ==
    (call.op = "updateCursor" /\ call.ret[1].hasTarget)
        => (/\ scene.targetPosition # Null
            /\ call.ret[1].canPlace
                   <=> \A i \in DOMAIN scene.voxels :
                           ~SameCell(scene.voxels[i].position, scene.targetPosition[1]))

\* updateCursor has reported a target whose placement cell is occupied
C15_Witness ==
    /\ call.op = "updateCursor"
    /\ call.ret[1].hasTarget
    /\ ~call.ret[1].canPlace
    /\ getVoxelCount(scene) = 2

\* C16: in every reachable state, after importData of coordinates off the grid
\* too, no two voxels of the map snap to the same grid cell, and the id of every
\* voxel, under which the map holds it, is positionToKey of its stored position.
C16_OnePerCell ==
    /\ \A i, j \in DOMAIN scene.voxels :
           SameCell(scene.voxels[i].position, scene.voxels[j].position) => i = j
    /\ \A i \in DOMAIN scene.voxels :
           scene.voxels[i].id = positionToKey(scene.voxels[i].position)

\* a file that names one cell twice, off its centre, has been imported: the map
\* holds the first of the two, at the position the file gave
C16_Witness ==
    /\ call.op = "importFile"
    /\ call.ret[1] = << <<0, 0, 140>>, <<-30, 0, 60>> >>
    /\ getVoxelCount(scene) = 2
    /\ scene.voxels[2].position = <<0, 0, 140>>

\* C17: deleteCube called with no focused voxel, or with a focused id that is
\* not in the map, and placeCube called with no placement coordinate, return
\* false and leave the scene as it was.
C17_NothingToDo ==
    [][/\ (/\ call'.op = "deleteCube"
           /\ (scene.targetVoxelId = Null \/ ~MapHas(scene.voxels, scene.targetVoxelId[1])))
              => (call'.ret = Some(FALSE) /\ scene' = scene)
       /\ (call'.op = "placeCube" /\ scene.targetPosition = Null)
              => (call'.ret = Some(FALSE) /\ scene' = scene)]_vars

\* deleteCube has refused a focused id that an import took out of the map, with
\* two voxels in the map
C17_Witness ==
    /\ call.op = "deleteCube"
    /\ call.ret = Some(FALSE)
    /\ scene.targetVoxelId # Null
    /\ ~MapHas(scene.voxels, scene.targetVoxelId[1])
    /\ getVoxelCount(scene) = 2

\* C20 (as stated): whenever updateCursor reports a target and the focused voxel
\* has a free face, the cell next to the selected face is unoccupied.
C20_SelectedFaceFree ==
    (/\ call.op = "updateCursor"
     /\ call.ret[1].hasTarget
     /\ unconnectedFaces(scene, MapGet(scene.voxels, scene.targetVoxelId[1])[1]) # <<>>)
        => ~MapHas(scene.voxels, positionToKey(neighborPos(MapGet(scene.voxels, scene.targetVoxelId[1])[1],
                                                           scene.currentFaceIndex)))

\* the frame's build hand shows no pinch but the ones named
OnlyPinches(index, middle) ==
    /\ ProcessedFrame
    /\ BuildHandRead
    /\ gestures'.right[1].indexThumbPinch = index
    /\ gestures'.right[1].middleThumbPinch = middle
    /\ ~gestures'.right[1].ringThumbPinch

\* C14: from the seeded scene, the first targeting pass focuses (0,0,0) with the
\* front face selected, canPlace true and the placement coordinate (0,0,1); a
\* place pinch that starts there makes the count 2; a delete pinch that starts
\* while (0,0,0) is focused, of the two, removes it and the count is 1 again;
\* and a delete pinch that starts on the only voxel left is refused, the count
\* staying 1.
C14_Scenario ==
    [][/\ (call.op = "mount" /\ OnlyPinches(FALSE, FALSE))
              => (/\ scene'.targetVoxelId = Some(Origin)
                  /\ scene'.currentFaceIndex = 4
                  /\ scene'.targetFace = Some(<<0, 0, 1>>)
                  /\ scene'.targetPosition = Some(<<0, 0, GRID_SIZE>>)
                  /\ cursorStatus' = [hasTarget |-> TRUE, canPlace |-> TRUE, canDelete |-> TRUE])
       /\ (/\ Keys(scene.voxels) = {Origin}
           /\ scene.targetVoxelId = Some(Origin)
           /\ scene.currentFaceIndex = 4
           /\ ~lastGesture.rightIndexPinch
           /\ OnlyPinches(TRUE, FALSE))
              => (/\ Keys(scene'.voxels) = {Origin, positionToKey(<<0, 0, GRID_SIZE>>)}
                  /\ voxelCount' = 2)
       /\ (/\ Keys(scene.voxels) = {Origin, positionToKey(<<0, 0, GRID_SIZE>>)}
           /\ ~lastGesture.rightMiddlePinch
           /\ OnlyPinches(FALSE, TRUE)
           /\ closestVoxel(scene, gestures'.right[1].palmPosition).id = Origin)
              => (/\ Keys(scene'.voxels) = {positionToKey(<<0, 0, GRID_SIZE>>)}
                  /\ voxelCount' = 1)
       /\ (/\ getVoxelCount(scene) = 1
           /\ ~lastGesture.rightMiddlePinch
           /\ OnlyPinches(FALSE, TRUE))
              => (/\ call'.ret[1][Len(call'.ret[1])] = Called("deleteCube", Some(FALSE))
                  /\ scene'.voxels = scene.voxels
                  /\ voxelCount' = 1)]_vars

\* the scenario's end: the voxel in front of the origin is the only one, and a
\* delete pinch that started on it has been refused
C14_Witness ==
    /\ call.op = "frame"
    /\ call.ret[1] = <<Called("updateCursor", Some(cursorStatus)), Called("deleteCube", Some(FALSE))>>
    /\ Keys(scene.voxels) = {positionToKey(<<0, 0, GRID_SIZE>>)}
    /\ voxelCount = 1
    /\ getVoxelCount(scene) = 1

\* the frame's update of the orbit hand has run
OrbitHandRead == gestures'.left # Null /\ config'.leftHandEnabled

\* C18: after every orbit-hand update the lock flag is the lock gesture of that
\* update; and in every reachable state in which the lock flag is true the
\* rotation velocity and the zoom velocity are zero.
C18_LockedIsStill ==
    /\ [][(ProcessedFrame /\ OrbitHandRead)
              => (/\ scene'.isLocked = gestures'.left[1].pinkyThumbPinch
                  /\ isLocked' = scene'.isLocked)]_vars
    /\ [](scene.isLocked => (scene.rotationVelocity = <<0, 0>> /\ scene.zoomVelocity = 0))

\* the orbit hand has locked a scene that was zooming, with the zoom-out gesture
\* asserted beside the lock gesture
C18_Witness ==
    /\ call.op = "frame"
    /\ scene.isLocked
    /\ gestures.left # Null
    /\ gestures.left[1].pinkyThumbPinch
    /\ gestures.left[1].ringThumbPinch
    /\ scene.zoom \notin StartZooms
    /\ scene.zoomVelocity = 0

\* the place of a scene method in the order of a frame
Rank(op) ==
    CASE op = "updateLeftHand" -> 1
      [] op = "updateCursor" -> 2
      [] op = "hideCursor" -> 2
      [] op = "placeCube" -> 3
      [] op = "deleteCube" -> 4

\* the scene methods the run has called, by name
CalledOps(calls) == {calls[i].op : i \in DOMAIN calls}

\* C19: in one run of processGestures the steps come in the order orbit update,
\* targeting, place, delete; placeCube is called exactly when the place pinch
\* starts and that run's targeting returned canPlace, deleteCube exactly when
\* the delete pinch starts and it returned canDelete; and when both pinches
\* start on a map of one voxel the voxel is added before the focused one is
\* removed, which leaves the added voxel alone in the map.
C19_FrameOrder ==
    [][ProcessedFrame =>
          /\ \A i, j \in DOMAIN call'.ret[1] :
                 i < j => Rank(call'.ret[1][i].op) < Rank(call'.ret[1][j].op)
          /\ "updateLeftHand" \in CalledOps(call'.ret[1]) <=> OrbitHandRead
          /\ "updateCursor" \in CalledOps(call'.ret[1]) <=> BuildHandRead
          /\ BuildHandRead =>
                 /\ "placeCube" \in CalledOps(call'.ret[1])
                        <=> (/\ gestures'.right[1].indexThumbPinch
                             /\ ~lastGesture.rightIndexPinch
                             /\ cursorStatus'.canPlace)
                 /\ "deleteCube" \in CalledOps(call'.ret[1])
                        <=> (/\ gestures'.right[1].middleThumbPinch
                             /\ ~lastGesture.rightMiddlePinch
                             /\ cursorStatus'.canDelete)
                 /\ ({"placeCube", "deleteCube"} \subseteq CalledOps(call'.ret[1])
                        /\ getVoxelCount(scene) = 1)
                        => (/\ getVoxelCount(scene') = 1
                            /\ Keys(scene'.voxels) = {positionToKey(scene'.targetPosition[1])}
                            /\ voxelCount' = 1)]_vars

\* a frame in which the orbit hand locked and both pinches of the build hand
\* started on the seed voxel: it was added to, then removed
C19_Witness ==
    /\ call.op = "frame"
    /\ call.ret[1] = <<Called("updateLeftHand", Null), Called("updateCursor", Some(cursorStatus)),
                       Called("placeCube", Some(TRUE)), Called("deleteCube", Some(TRUE))>>
    /\ scene.isLocked
    /\ Keys(scene.voxels) = {positionToKey(<<0, 0, GRID_SIZE>>)}
    /\ voxelCount = 1

\* the free face that follows face index in the order Right, Left, Top, Bottom,
\* Front, Back, taken round: the first free one of index + 1, ..., index + 6
NextFreeFace(s, voxel, index) ==
    LET Free(f) == ~MapHas(s.voxels, positionToKey(neighborPos(voxel, f)))
        Step(k) == (index + k) % 6
    IN Step(CHOOSE k \in 1..6 : Free(Step(k)) /\ \A j \in 1..(k - 1) : ~Free(Step(j)))

\* C21 (as stated): over calls of updateCursor that keep the focus on one voxel,
\* the selected face changes only when the cycle pinch goes from false to true,
\* and then it moves to the free face that follows it in the order Right, Left,
\* Top, Bottom, Front, Back, taken round.
C21_CycleAdvances ==
    [][(/\ call'.op = "updateCursor"
        /\ scene.targetVoxelId # Null
        /\ scene'.targetVoxelId = scene.targetVoxelId)
           => scene'.currentFaceIndex =
                  IF /\ scene'.lastRingPinch
                     /\ ~scene.lastRingPinch
                     /\ unconnectedFaces(scene, MapGet(scene.voxels, scene.targetVoxelId[1])[1]) # <<>>
                  THEN NextFreeFace(scene, MapGet(scene.voxels, scene.targetVoxelId[1])[1],
                                    scene.currentFaceIndex)
                  ELSE scene.currentFaceIndex]_vars

\* C22 (as stated): on an unlocked orbit-hand update with the rotate gesture
\* asserted, the rotation velocity becomes zero when there is no previous palm
\* sample, and the sensitivity-scaled palm delta from the previous sample
\* otherwise.
C22_RotationVelocitySet ==
    [][(/\ ProcessedFrame
        /\ OrbitHandRead
        /\ ~gestures'.left[1].pinkyThumbPinch
        /\ gestures'.left[1].indexThumbPinch)
           => scene'.rotationVelocity =
                  IF scene.lastPalmPosition = Null
                  THEN <<0, 0>>
                  ELSE <<(gestures'.left[1].palmPosition[1] - scene.lastPalmPosition[1][1])
                             * scene.sensitivity,
                         -((gestures'.left[1].palmPosition[2] - scene.lastPalmPosition[1][2])
                             * scene.sensitivity)>>]_vars

\* C23 (as stated): in every render tick in which the view is not locked and
\* the latest update shows no orbit hand, or an orbit hand without the rotate
\* pinch, the rotation velocity is multiplied by the damping factor.
C23_CoastDecays ==
    [][(/\ call'.op = "animate"
        /\ ~scene.isLocked
        /\ (gestures.left = Null \/ ~gestures.left[1].indexThumbPinch))
           => scene'.rotationVelocity
                  = <<Damp(scene.rotationVelocity[1]), Damp(scene.rotationVelocity[2])>>]_vars

\* C24: an unlocked orbit-hand update sets the zoom velocity to -ZOOM_SPEED when
\* zoom-in is asserted, zoom-out asserted or not, to ZOOM_SPEED when zoom-out
\* alone is asserted, and leaves it otherwise; a render tick of an unlocked view
\* multiplies it by the damping factor, and nothing else changes it.
C24_ZoomVelocity ==
    [][/\ (ProcessedFrame /\ OrbitHandRead /\ ~gestures'.left[1].pinkyThumbPinch)
              => scene'.zoomVelocity =
                     IF gestures'.left[1].middleThumbPinch THEN -ZOOM_SPEED
                     ELSE IF gestures'.left[1].ringThumbPinch THEN ZOOM_SPEED
                     ELSE scene.zoomVelocity
       /\ (call'.op = "animate" /\ ~scene.isLocked)
              => scene'.zoomVelocity = Damp(scene.zoomVelocity)
       /\ (ProcessedFrame /\ ~OrbitHandRead) => scene'.zoomVelocity = scene.zoomVelocity]_vars

\* both zoom gestures were asserted on an unlocked update, made while the view
\* was zooming out: it zooms in
C24_Witness ==
    /\ call.op = "frame"
    /\ gestures.left # Null
    /\ gestures.left[1].middleThumbPinch
    /\ gestures.left[1].ringThumbPinch
    /\ ~gestures.left[1].pinkyThumbPinch
    /\ scene.zoomVelocity = -ZOOM_SPEED
    /\ scene.zoom > 800

\* the voxel's position in view space: the world rotation applied
ViewPos(s, voxel) == applyEuler(voxel.position, worldMatrix(s))

\* the voxel's distance from the mapped palm position in the screen plane
Lateral(s, voxel, palmPosition) ==
    Length2(cursorWorldPos(palmPosition)[1] - ViewPos(s, voxel)[1],
            cursorWorldPos(palmPosition)[2] - ViewPos(s, voxel)[2])

\* the run of processGestures was a targeting pass and nothing more
TargetingOnly == ProcessedFrame /\ Len(call'.ret[1]) = 1 /\ call'.ret[1][1].op = "updateCursor"

\* C25 (as stated): of two voxels at the same distance from the mapped palm
\* position in the screen plane, updateCursor does not focus the one farther
\* from the camera (of smaller z in view space).
C25_NearerWins ==
    [][TargetingOnly
           => \A i, j \in DOMAIN scene.voxels :
                  (/\ Lateral(scene, scene.voxels[i], gestures'.right[1].palmPosition)
                          = Lateral(scene, scene.voxels[j], gestures'.right[1].palmPosition)
                   /\ ViewPos(scene, scene.voxels[i])[3] < ViewPos(scene, scene.voxels[j])[3])
                      => scene'.targetVoxelId # Some(scene.voxels[i].id)]_vars

\* C26: for a given map, palm position, world rotation and zoom, the voxel that
\* updateCursor focuses is a voxel of minimum score, and the earliest inserted
\* of those whose score is the minimum.
C26_EarliestOfMinimum ==
    [][TargetingOnly
           => \E i \in DOMAIN scene.voxels :
                  /\ scene'.targetVoxelId = Some(scene.voxels[i].id)
                  /\ \A j \in DOMAIN scene.voxels :
                         LET Score(voxel) ==
                                 Score2(voxel, worldMatrix(scene),
                                        cursorWorldPos(gestures'.right[1].palmPosition), scene.zoom)
                         IN /\ Score(scene.voxels[i]) <= Score(scene.voxels[j])
                            /\ j < i => Score(scene.voxels[i]) < Score(scene.voxels[j])]_vars

\* a targeting pass has found two voxels of the same score, and focused the one
\* inserted first
C26_Witness ==
    /\ call.op = "frame"
    /\ Len(call.ret[1]) = 1
    /\ gestures.right # Null
    /\ getVoxelCount(scene) = 2
    /\ scene.targetVoxelId = Some(scene.voxels[1].id)
    /\ Score2(scene.voxels[1], worldMatrix(scene), cursorWorldPos(gestures.right[1].palmPosition),
              scene.zoom)
           = Score2(scene.voxels[2], worldMatrix(scene),
                    cursorWorldPos(gestures.right[1].palmPosition), scene.zoom)

\* C27: whenever updateCursor reports a target, the selected face is one of the
\* six unit normals along the axes, and the placement coordinate is the grid
\* coordinate of the focused voxel plus that normal, snapped by snapToGrid.
C27_PlacementIsNeighbour ==
    (call.op = "updateCursor" /\ call.ret[1].hasTarget)
        => /\ scene.targetFace # Null
           /\ scene.targetVoxelId # Null
           /\ scene.targetPosition # Null
           /\ \E axis \in 1..3, sign \in {-1, 1} :
                  scene.targetFace[1] = [a \in 1..3 |-> IF a = axis THEN sign ELSE 0]
           /\ \E i \in DOMAIN scene.voxels :
                  /\ scene.voxels[i].id = scene.targetVoxelId[1]
                  /\ \A a \in 1..3 :
                         scene.targetPosition[1][a]
                             = snapToGrid(snapToGrid(scene.voxels[i].position[a])
                                              + scene.targetFace[1][a] * GRID_SIZE)

\* a target has been reported on a voxel that an import put off the centre of
\* its cell, with a face selected by cycling
C27_Witness ==
    /\ call.op = "updateCursor"
    /\ call.ret[1].hasTarget
    /\ scene.currentFaceIndex = 1
    /\ \E i \in DOMAIN scene.voxels :
           /\ scene.voxels[i].id = scene.targetVoxelId[1]
           /\ scene.voxels[i].position = <<-30, 0, 60>>

\* the voxel the pass has focused
Focused(s) == MapGet(s.voxels, s.targetVoxelId[1])[1]

\* the square of the distance from the mapped palm position to the face's centre
FaceDist(s, voxel, palmPosition, index) ==
    distanceToSquared(handWorldPos(s, palmPosition), facePos(voxel, index))

\* C28: in the variant, a pass of updateCursor with the cycle pinch not asserted
\* selects, of the free faces of the focused voxel, the one whose centre is
\* nearest the mapped palm position, the first in the order of the faces when
\* two are as near; when the voxel has no free face the selection stays: the one
\* before the pass, or Front when the pass has changed the focus.
C28_NearestFreeFace ==
    [][(call'.op = "updateCursor" /\ ~gestures'.right[1].ringThumbPinch)
           => LET voxel == Focused(scene')
                  free == unconnectedFaces(scene', voxel)
                  palm == gestures'.right[1].palmPosition
              IN IF free # <<>>
                 THEN \E k \in DOMAIN free :
                          /\ scene'.currentFaceIndex = free[k]
                          /\ \A j \in DOMAIN free :
                                 /\ FaceDist(scene', voxel, palm, free[k])
                                        <= FaceDist(scene', voxel, palm, free[j])
                                 /\ j < k => FaceDist(scene', voxel, palm, free[k])
                                                 < FaceDist(scene', voxel, palm, free[j])
                 ELSE scene'.currentFaceIndex
                          = IF scene.targetVoxelId = scene'.targetVoxelId
                            THEN scene.currentFaceIndex
                            ELSE 4]_vars

\* a pass without the cycle pinch has left the front face, which is covered,
\* for the nearest free one
C28_Witness ==
    /\ call.op = "updateCursor"
    /\ ~gestures.right[1].ringThumbPinch
    /\ scene.targetVoxelId = Some(Origin)
    /\ getVoxelCount(scene) = 2
    /\ MapHas(scene.voxels, positionToKey(<<0, 0, GRID_SIZE>>))
    /\ scene.currentFaceIndex # 4
    /\ call.ret[1].canPlace

\* C29: a pass of processGestures that does not read the orbit hand, because
\* the frame does not show it or because it is switched off, leaves the scene's
\* lock flag, rotating flag and last palm sample, and the component's lock flag,
\* as they were; so a locked view is released only by a pass that reads an orbit
\* hand without the lock pinch.
C29_AwayKeepsOrbit ==
    [][/\ ~OrbitHandRead
           => /\ scene'.isLocked = scene.isLocked
              /\ scene'.isRotating = scene.isRotating
              /\ scene'.lastPalmPosition = scene.lastPalmPosition
              /\ isLocked' = isLocked
       /\ (scene.isLocked /\ ~scene'.isLocked)
           => (OrbitHandRead /\ ~gestures'.left[1].pinkyThumbPinch)]_vars

\* the view is still locked after a frame that shows the orbit hand without the
\* lock pinch while the hand is switched off
C29_Witness ==
    /\ call.op = "frame"
    /\ scene.isLocked
    /\ isLocked
    /\ ~config.leftHandEnabled
    /\ gestures.left # Null
    /\ ~gestures.left[1].pinkyThumbPinch
    /\ gestures.right = Null

\* C30: whatever the order of render ticks, landmark updates, resets and file
\* readings, a render tick leaves the voxel map, the target (voxel, position,
\* face, face index and the cycle pinch remembered) and the lock flag as they
\* were, in the scene and in the component; and the voxel map changes only in a
\* pass of processGestures, in the reset and in the reading of a file.
C30_TickLeavesStore ==
    [][/\ call'.op = "animate"
           => /\ scene'.voxels = scene.voxels
              /\ scene'.targetVoxelId = scene.targetVoxelId
              /\ scene'.targetPosition = scene.targetPosition
              /\ scene'.targetFace = scene.targetFace
              /\ scene'.currentFaceIndex = scene.currentFaceIndex
              /\ scene'.lastRingPinch = scene.lastRingPinch
              /\ scene'.isLocked = scene.isLocked
              /\ UNCHANGED <<voxelCount, cursorStatus, isLocked>>
       /\ scene'.voxels # scene.voxels => call'.op \in {"frame", "clear", "open"}]_vars

\* a second render tick on a locked view that holds two cubes and a target
C30_Witness ==
    /\ call.op = "animate"
    /\ scene.animationId >= 2
    /\ getVoxelCount(scene) = 2
    /\ scene.isLocked
    /\ scene.targetVoxelId # Null
    /\ scene.zoom # 800

\* C31: after every pass of processGestures and after every reset, the count
\* the component shows is the number of voxels in the scene's map, and the lock
\* the component shows is the scene's lock flag.
C31_ShownIsScene ==
    call.op \in {"frame", "config", "clear"}
        => (voxelCount = getVoxelCount(scene) /\ isLocked = isLockedState(scene))

\* a frame has locked a view of two cubes, and the component shows both
C31_Witness ==
    /\ call.op = "frame"
    /\ voxelCount = 2
    /\ getVoxelCount(scene) = 2
    /\ isLocked
    /\ isLockedState(scene)

\* what the map holds, the meshes aside: the ids and positions, in order
Entries(voxels) == [i \in DOMAIN voxels |-> [id |-> voxels[i].id, position |-> voxels[i].position]]

\* C32: a placeCube that returns true appends one voxel, at the placement
\* position and under its key, and a deleteCube that returns true removes one
\* voxel, the focused one; every other entry of the map stays as it was, and
\* the count moves by one.
C32_OneVoxelEach ==
    [][/\ (call'.op = "placeCube" /\ call'.ret = Some(TRUE))
           => /\ scene.targetPosition # Null
              /\ ~MapHas(scene.voxels, positionToKey(scene.targetPosition[1]))
              /\ getVoxelCount(scene') = getVoxelCount(scene) + 1
              /\ Entries(scene'.voxels)
                     = Append(Entries(scene.voxels),
                              [id |-> positionToKey(scene.targetPosition[1]),
                               position |-> scene.targetPosition[1]])
       /\ (call'.op = "deleteCube" /\ call'.ret = Some(TRUE))
           => /\ scene.targetVoxelId # Null
              /\ MapHas(scene.voxels, scene.targetVoxelId[1])
              /\ getVoxelCount(scene') = getVoxelCount(scene) - 1
              /\ Entries(scene'.voxels) = Entries(MapDelete(scene.voxels, scene.targetVoxelId[1]))]_vars

\* deleteCube has removed the seed and left the cube in front of it
C32_Witness ==
    /\ call.op = "deleteCube"
    /\ call.ret = Some(TRUE)
    /\ Keys(scene.voxels) = {positionToKey(<<0, 0, GRID_SIZE>>)}

\* the two positions are one grid step apart along one axis and equal on the others
FaceAdjacent(p, q) ==
    \E a \in 1..3 :
        /\ Abs(p[a] - q[a]) = GRID_SIZE
        /\ \A b \in (1..3) \ {a} : p[b] = q[b]

\* C33: every voxel that a pass of processGestures adds lies one grid step
\* along one axis from a voxel the map held when the pass began, which is the
\* map at the moment of the add: nothing in the pass changes the map before
\* placeCube.
C33_AddedIsAdjacent ==
    [][ProcessedFrame
           => \A i \in DOMAIN scene'.voxels :
                  ~MapHas(scene.voxels, scene'.voxels[i].id)
                      => \E j \in DOMAIN scene.voxels :
                             FaceAdjacent(scene'.voxels[i].position, scene.voxels[j].position)]_vars

\* a frame has placed a cube to the right of the seed
C33_Witness ==
    /\ call.op = "frame"
    /\ \E k \in DOMAIN call.ret[1] : call.ret[1][k].op = "placeCube" /\ call.ret[1][k].ret = Some(TRUE)
    /\ Keys(scene.voxels) = {Origin, positionToKey(<<GRID_SIZE, 0, 0>>)}

\* C34 (as stated): while the component is mounted and the hook reports
\* isRunning, the tracker reference holds a tracker, and that tracker is running.
C34_RunningHasTracker ==
    (tracking.mounted /\ tracking.isRunning)
        => /\ tracking.trackerRef # Null
           /\ tracking.trackers[tracking.trackerRef[1]].isRunning

\* the trackers that were initialized and not destroyed since: they hold a camera
Undestroyed(h) == {i \in DOMAIN h.trackers : h.trackers[i].camera}

\* no timeout is set and no initialize is at its await
Settled(h) == ~h.timeoutId /\ \A i \in DOMAIN h.trackers : ~h.trackers[i].initializing

\* C35 (as stated): once no initialization is pending there is at most one
\* tracker that was initialized and not destroyed, and after the unmount there
\* is none and the tracker reference is null.
C35_OneTrackerAtMost ==
    Settled(tracking)
        => /\ Cardinality(Undestroyed(tracking)) <= 1
           /\ ~tracking.mounted
                  => (Undestroyed(tracking) = {} /\ tracking.trackerRef = Null)

\* C36 (as stated): between the handlers the focused voxel's id, the selected
\* face and the placement position are all null or all set, and an id that is
\* set is the key of a voxel in the map.
C36_TargetConsistent ==
    /\ (scene.targetVoxelId = Null) = (scene.targetFace = Null)
    /\ (scene.targetVoxelId = Null) = (scene.targetPosition = Null)
    /\ scene.targetVoxelId # Null => MapHas(scene.voxels, scene.targetVoxelId[1])

\* C37 (as stated): the scene's sensitivity and the configuration's are always
\* in the ratio they have at start-up.
C37_SameRatio ==
    getSensitivity(scene) * InitialConfig.sensitivity
        = config.sensitivity * getSensitivity(VoxelScene)

=============================================================================
